---- MODULE Spec2Model ----
(***************************************************************************)
(* Artic language server: workspace/project resolution (Workspace) and the *)
(* compile orchestrator of the LSP server (Server).                        *)
(*                                                                         *)
(* Paths are sequences of components: "/" is <<"/">>, "/w/a.art" is        *)
(* <<"/", "w", "a.art">>, and the empty path "" is << >>.                  *)
(***************************************************************************)
EXTENDS Integers, Sequences, FiniteSets, TLC

\* ------------------------------------------------------------------ bounds

\* number of times the user rewrites a configuration file on disk
MaxDiskEdits == 1
\* the count of the parses of one configuration file stops here
MaxParses == 2

\* ------------------------------------------------------------- small helpers

Last(s) == s[Len(s)]
Range(s) == { s[i] : i \in 1..Len(s) }
Contains(s, x) == \E i \in 1..Len(s) : s[i] = x
NoDup(s) == \A i, j \in 1..Len(s) : s[i] = s[j] => i = j
Put(f, k, v) == (k :> v) @@ f
Has(f, k) == k \in DOMAIN f

RECURSIVE Without(_, _)
\* std::remove + erase: all occurrences of x are taken out of s
Without(s, x) ==
    IF s = << >> THEN << >>
    ELSE IF Head(s) = x THEN Without(Tail(s), x)
    ELSE <<Head(s)>> \o Without(Tail(s), x)

RECURSIVE Dedup(_)
Dedup(s) ==
    IF s = << >> THEN << >>
    ELSE LET r == Dedup(SubSeq(s, 1, Len(s) - 1))
         IN IF Contains(r, Last(s)) THEN r ELSE Append(r, Last(s))

\* -------------------------------------------------------------- the file system

RootPath == <<"/">>
EmptyPath == << >>
W_DIR == <<"/", "w">>
SUB_DIR == <<"/", "w", "sub">>
A_ART == <<"/", "w", "a.art">>
B_ART == <<"/", "w", "b.art">>
D_ART == <<"/", "w", "d.art">>
C_ART == <<"/", "w", "sub", "c.art">>
E_ART == <<"/", "w", "sub", "e.art">>
\* /lnk is a symbolic link to /w: the same file under a second name
A_LNK == <<"/", "lnk", "a.art">>
\* a document the editor holds that was never written to disk
G_ART == <<"/", "w", "sub", "g.art">>
W_CFG == <<"/", "w", "artic.json">>
S_CFG == <<"/", "w", "sub", ".artic-lsp">>

RegularSources == {A_ART, B_ART, D_ART, C_ART, E_ART}
T_CFG == <<"/", "w", "sub", "artic.json">>
ConfigPaths == {W_CFG, S_CFG, T_CFG}

\* fs::path::parent_path: "/" and "" are their own parents
parent_path(p) == IF Len(p) <= 1 THEN p ELSE SubSeq(p, 1, Len(p) - 1)

\* fs::path::extension of the file names of this file system: a name that
\* starts with its only dot (".artic-lsp") has no extension
extension(p) ==
    IF p = EmptyPath THEN ""
    ELSE CASE Last(p) \in {"a.art", "b.art", "c.art", "d.art", "e.art", "g.art"} -> ".art"
           [] Last(p) = "artic.json" -> ".json"
           [] OTHER -> ""

\* fs::weakly_canonical: resolves the symbolic link /lnk -> /w
weakly_canonical(p) ==
    IF Len(p) >= 2 /\ p[2] = "lnk" THEN W_DIR \o SubSeq(p, 3, Len(p)) ELSE p

\* fs::directory_iterator: sub-directories and source files of a directory
Entries(dir) ==
    CASE dir = W_DIR -> <<"a.art", "b.art", "d.art", "sub">>
      [] dir = SUB_DIR -> <<"c.art", "e.art">>
      [] OTHER -> << >>

is_directory(p) == weakly_canonical(p) \in {RootPath, W_DIR, SUB_DIR}
is_regular_file(p) == weakly_canonical(p) \in RegularSources

\* fnmatch(part, filename, 0) for the wildcard segments used here
fnmatch(part, name) ==
    CASE part = "*.art" -> name \in {"a.art", "b.art", "c.art", "d.art", "e.art", "g.art"}
      [] part = "*" -> TRUE
      [] OTHER -> part = name

is_wildcard(part) == part \in {"*.art", "*"}

\* ------------------------------------------------------------ glob expansion

\* insertion into FilePatternParser::results guarded by the dedup set
Record(res, p) == IF Contains(res, p) THEN res ELSE Append(res, p)

RECURSIVE dfs(_, _, _, _)
RECURSIVE dfs_subdirs(_, _, _, _, _)
RECURSIVE dfs_entries(_, _, _, _, _)

\* the loop of the "**" case over the sub-directories of base, from entry k on
dfs_subdirs(idx, base, parts, res, k) ==
    IF k > Len(Entries(base)) THEN res
    ELSE LET p == Append(base, Entries(base)[k])
             r == IF is_directory(p) THEN dfs(idx, p, parts, res) ELSE res
         IN dfs_subdirs(idx, base, parts, r, k + 1)

\* the loop of the wildcard case over the entries of base, from entry k on
dfs_entries(idx, base, parts, res, k) ==
    IF k > Len(Entries(base)) THEN res
    ELSE LET name == Entries(base)[k]
             p == Append(base, name)
             r == IF ~fnmatch(parts[idx], name) THEN res
                  ELSE IF idx = Len(parts)
                       THEN (IF is_regular_file(p) THEN Record(res, weakly_canonical(p)) ELSE res)
                  ELSE IF is_directory(p) THEN dfs(idx + 1, p, parts, res)
                  ELSE res
         IN dfs_entries(idx, base, parts, r, k + 1)

\* FilePatternParser::dfs; idx counts the segments from 1
dfs(idx, base, parts, res) ==
    IF idx = Len(parts) + 1
    THEN (IF is_regular_file(base) THEN Record(res, weakly_canonical(base)) ELSE res)
    ELSE IF parts[idx] = "**"
    THEN dfs_subdirs(idx, base, parts, dfs(idx + 1, base, parts, res), 1)
    ELSE IF ~is_wildcard(parts[idx])
    THEN LET next == Append(base, parts[idx])
         IN IF idx = Len(parts)
            THEN (IF is_regular_file(next) THEN Record(res, weakly_canonical(next)) ELSE res)
            ELSE (IF is_directory(next) THEN dfs(idx + 1, next, parts, res) ELSE res)
    ELSE dfs_entries(idx, base, parts, res, 1)

\* FilePatternParser::expand for a pattern relative to root
expand(root, parts) == IF is_directory(root) THEN dfs(1, root, parts, << >>) ELSE << >>

RECURSIVE expand_all(_, _)
expand_all(root, patterns) ==
    IF patterns = << >> THEN << >>
    ELSE expand_all(root, SubSeq(patterns, 1, Len(patterns) - 1))
         \o expand(root, Last(patterns).parts)

\* the materialized file list of a project: the expansions of its patterns in
\* first-seen order, without the paths an exclusion pattern matches
materialize(root, patterns) ==
    LET incl == SelectSeq(patterns, LAMBDA q : ~q.excl)
        excl == SelectSeq(patterns, LAMBDA q : q.excl)
        excluded == Range(expand_all(root, excl))
    IN SelectSeq(Dedup(expand_all(root, incl)), LAMBDA f : f \notin excluded)

\* ------------------------------------------------- configuration documents

Absent == [absent |-> TRUE]
NoText == "no text"

Pat(parts) == [excl |-> FALSE, parts |-> parts]
NotPat(parts) == [excl |-> TRUE, parts |-> parts]
ProjectJson(name, files, deps) ==
    [has_name |-> TRUE, name |-> name, folder |-> << >>, files |-> files, dependencies |-> deps]
NoDefault == [kind |-> "none"]
Json(projects, default, include) ==
    [json_ok |-> TRUE, has_header |-> TRUE, version |-> "2.0", unknown_keys |-> << >>,
     projects |-> projects, default |-> default, include |-> include]

\* /w/artic.json: app -> lib
W_CHAIN == Json(<<ProjectJson("app", <<Pat(<<"a.art">>)>>, <<"lib">>),
                  ProjectJson("lib", <<Pat(<<"b.art">>)>>, << >>)>>, NoDefault, << >>)
\* the same with d.art added to the files of app
W_ADDED == Json(<<ProjectJson("app", <<Pat(<<"a.art">>), Pat(<<"d.art">>)>>, <<"lib">>),
                  ProjectJson("lib", <<Pat(<<"b.art">>)>>, << >>)>>, NoDefault, << >>)
\* app -> lib -> core and app -> core
W_DIAMOND == Json(<<ProjectJson("app", <<Pat(<<"a.art">>)>>, <<"lib", "core">>),
                    ProjectJson("lib", <<Pat(<<"b.art">>)>>, <<"core">>),
                    ProjectJson("core", <<Pat(<<"sub", "c.art">>)>>, << >>)>>, NoDefault, << >>)
\* only an inline default project, which lists b.art
W_DEFAULT == Json(<< >>, [kind |-> "inline",
                          project |-> ProjectJson("dflt", <<Pat(<<"b.art">>)>>, << >>)], << >>)
\* /w/sub/.artic-lsp: one project that lists c.art
S_SUB == Json(<<ProjectJson("subp", <<Pat(<<"c.art">>)>>, << >>)>>, NoDefault, << >>)
\* the same over all .art files of /w/sub
S_ADDED == Json(<<ProjectJson("subp", <<Pat(<<"*.art">>)>>, << >>)>>, NoDefault, << >>)

Variants(cfg) ==
    IF cfg = W_CFG THEN {W_CHAIN, W_ADDED, W_DIAMOND, W_DEFAULT}
    ELSE IF cfg = S_CFG THEN {Absent, S_SUB, S_ADDED}
    ELSE {Absent}

DiskStates == { d \in [ConfigPaths -> UNION { Variants(c) : c \in ConfigPaths }] :
                  \A c \in ConfigPaths : d[c] \in Variants(c) }

\* the configuration files a session starts with
InitialDisks == { d \in DiskStates : d[W_CFG] = W_CHAIN /\ d[S_CFG] = S_SUB }

\* ---- configuration files with faults, for sessions over a fixed disk

Disk(w, s, t) == (W_CFG :> w) @@ (S_CFG :> s) @@ (T_CFG :> t)
\* an entry of "include"; a raw string that ends with "?" is optional
Inc(rel, raw) == [rel |-> rel, raw |-> raw, optional |-> FALSE]
\* the same for a raw string with "?" at its end: rel is the path without it
IncOpt(rel, raw) == [rel |-> rel, raw |-> raw, optional |-> TRUE]

\* app depends on itself
W_SELF == Json(<<ProjectJson("app", <<Pat(<<"a.art">>)>>, <<"app">>)>>, NoDefault, << >>)
\* app -> lib -> app
W_CYCLE == Json(<<ProjectJson("app", <<Pat(<<"a.art">>)>>, <<"lib">>),
                  ProjectJson("lib", <<Pat(<<"b.art">>)>>, <<"app">>)>>, NoDefault, << >>)
\* two self-dependencies in front of the edges of app -> lib -> app
W_TANGLE == Json(<<ProjectJson("app", <<Pat(<<"a.art">>)>>, <<"app", "lib">>),
                   ProjectJson("lib", <<Pat(<<"b.art">>)>>, <<"lib", "app">>)>>,
                 NoDefault, << >>)
\* app -> subp, with subp declared in /w/sub/.artic-lsp, which is included or not
W_TO_SUB == Json(<<ProjectJson("app", <<Pat(<<"a.art">>)>>, <<"subp">>)>>, NoDefault, << >>)
W_SPAN == Json(<<ProjectJson("app", <<Pat(<<"a.art">>)>>, <<"subp">>)>>, NoDefault,
               <<Inc(<<"sub", ".artic-lsp">>, "sub/.artic-lsp")>>)
\* subp -> app
S_BACK == Json(<<ProjectJson("subp", <<Pat(<<"c.art">>)>>, <<"app">>)>>, NoDefault, << >>)

\* /w/artic.json includes itself
W_SELFINC == Json(<<ProjectJson("app", <<Pat(<<"a.art">>)>>, << >>)>>, NoDefault,
                  <<Inc(<<"artic.json">>, "artic.json")>>)
\* /w/artic.json includes /w/sub/.artic-lsp, which includes /w/sub/artic.json,
\* which includes /w/sub/.artic-lsp
W_INC_S == Json(<<ProjectJson("app", <<Pat(<<"a.art">>)>>, <<"subp">>)>>, NoDefault,
                <<Inc(<<"sub", ".artic-lsp">>, "sub/.artic-lsp")>>)
S_INC_T == Json(<<ProjectJson("subp", <<Pat(<<"c.art">>)>>, <<"tproj">>)>>, NoDefault,
                <<Inc(<<"artic.json">>, "artic.json")>>)
T_INC_S == Json(<<ProjectJson("tproj", <<Pat(<<"e.art">>)>>, << >>)>>, NoDefault,
                <<Inc(<<".artic-lsp">>, ".artic-lsp")>>)

\* one project and one fault each: a key the parser does not know, a version
\* other than "2.0", an include of a file that is not there, a second
\* definition of app, a folder that is not there, a dependency nobody declares
W_PLAIN == Json(<<ProjectJson("app", <<Pat(<<"a.art">>)>>, << >>)>>, NoDefault, << >>)
W_UNKNOWN == [W_PLAIN EXCEPT !.unknown_keys = <<"foo">>]
W_V3 == [W_PLAIN EXCEPT !.version = "3.0"]
W_V1 == [W_PLAIN EXCEPT !.version = "1.0"]
W_MISSING_INC == [W_PLAIN EXCEPT !.include = <<Inc(<<"gone.json">>, "gone.json")>>]
W_DUP == Json(<<ProjectJson("app", <<Pat(<<"a.art">>)>>, << >>),
                ProjectJson("app", <<Pat(<<"b.art">>)>>, << >>)>>, NoDefault, << >>)
W_BADFOLDER == Json(<<[ProjectJson("app", <<Pat(<<"a.art">>)>>, << >>)
                          EXCEPT !.folder = <<"nodir">>]>>, NoDefault, << >>)
W_UNRESOLVED == Json(<<ProjectJson("app", <<Pat(<<"a.art">>)>>, <<"ghost">>)>>,
                     NoDefault, << >>)
\* app -> lib -> core and app -> core, and app depends on "ghost" as well
W_GHOST_DIAMOND == Json(<<ProjectJson("app", <<Pat(<<"a.art">>)>>, <<"lib", "core", "ghost">>),
                          ProjectJson("lib", <<Pat(<<"b.art">>)>>, <<"core">>),
                          ProjectJson("core", <<Pat(<<"sub", "c.art">>)>>, << >>)>>,
                        NoDefault, << >>)

\* subp is defined in /w/artic.json and again in the included /w/sub/.artic-lsp
W_OWN_FIRST == Json(<<ProjectJson("app", <<Pat(<<"a.art">>)>>, <<"subp">>),
                      ProjectJson("subp", <<Pat(<<"b.art">>)>>, << >>)>>, NoDefault,
                    <<Inc(<<"sub", ".artic-lsp">>, "sub/.artic-lsp")>>)
\* subp is defined in both includes: /w/sub/artic.json is the first one declared
W_TWO_INCS == Json(<<ProjectJson("app", <<Pat(<<"a.art">>)>>, <<"subp">>)>>, NoDefault,
                   <<Inc(<<"sub", "artic.json">>, "sub/artic.json"),
                     Inc(<<"sub", ".artic-lsp">>, "sub/.artic-lsp")>>)
T_SUBP == Json(<<ProjectJson("subp", <<Pat(<<"e.art">>)>>, << >>)>>, NoDefault, << >>)

\* c.art is listed by app of /w/artic.json; subp of /w/sub/.artic-lsp depends on
\* app, and neither document includes the other
W_SHARED == Json(<<ProjectJson("app", <<Pat(<<"a.art">>), Pat(<<"sub", "c.art">>)>>, << >>)>>,
                 NoDefault, << >>)
S_VIA_APP == Json(<<ProjectJson("subp", <<Pat(<<"e.art">>)>>, <<"app">>)>>, NoDefault, << >>)

\* a.art is listed by app and by lib, lib is the default project; c.art is listed
\* by subp of /w/sub/.artic-lsp and by tproj of /w/sub/artic.json
W_TWICE == Json(<<ProjectJson("app", <<Pat(<<"a.art">>)>>, << >>),
                  ProjectJson("lib", <<Pat(<<"a.art">>), Pat(<<"b.art">>)>>, << >>)>>,
                [kind |-> "ref", name |-> "lib"], << >>)
T_ALL == Json(<<ProjectJson("tproj", <<Pat(<<"*.art">>)>>, << >>)>>, NoDefault, << >>)

\* app lists all .art files of /w but b.art, lib has an empty "files" array;
\* subp lists all .art files of /w/sub but e.art, the exclusion in front
W_EXCL == Json(<<ProjectJson("app", <<Pat(<<"*.art">>), NotPat(<<"b.art">>)>>, <<"lib">>),
                 ProjectJson("lib", << >>, << >>)>>, NoDefault, << >>)
S_EXCL_FIRST == Json(<<ProjectJson("subp", <<NotPat(<<"e.art">>), Pat(<<"*.art">>)>>, << >>)>>,
                     NoDefault, << >>)

\* an optional and a required include of files that are not there, each in front
\* of the include of /w/sub/.artic-lsp
W_OPT_THEN_S == [W_PLAIN EXCEPT !.include = <<IncOpt(<<"gone.json">>, "gone.json?"),
                                               Inc(<<"sub", ".artic-lsp">>, "sub/.artic-lsp")>>]
W_GONE_THEN_S == [W_PLAIN EXCEPT !.include = <<Inc(<<"gone.json">>, "gone.json"),
                                                Inc(<<"sub", ".artic-lsp">>, "sub/.artic-lsp")>>]

\* /w/sub/.artic-lsp is not valid JSON
S_BROKEN == [S_SUB EXCEPT !.json_ok = FALSE]
\* app lists a.art and everything below /w, lib everything below /w/sub
W_DEEP == Json(<<ProjectJson("app", <<Pat(<<"a.art">>), Pat(<<"**">>)>>, <<"lib">>),
                 ProjectJson("lib", <<Pat(<<"sub", "**">>)>>, << >>)>>, NoDefault, << >>)

\* the sets of configuration files a session over a fixed disk runs with
ConfigSets ==
    { Disk(W_PLAIN, S_BROKEN, Absent),
      Disk(W_DEEP, Absent, Absent),
      Disk(W_OPT_THEN_S, S_SUB, Absent),
      Disk(W_GONE_THEN_S, S_SUB, Absent),
      Disk(W_EXCL, S_EXCL_FIRST, Absent),
      Disk(Absent, S_SUB, Absent),
      Disk(W_TWICE, S_SUB, T_ALL),
      Disk(W_SHARED, S_VIA_APP, Absent),
      Disk(W_OWN_FIRST, S_SUB, Absent),
      Disk(W_TWO_INCS, S_SUB, T_SUBP),
      Disk(W_UNKNOWN, Absent, Absent),
      Disk(W_V3, Absent, Absent),
      Disk(W_V1, Absent, Absent),
      Disk(W_MISSING_INC, Absent, Absent),
      Disk(W_DUP, Absent, Absent),
      Disk(W_BADFOLDER, Absent, Absent),
      Disk(W_UNRESOLVED, Absent, Absent),
      Disk(W_GHOST_DIAMOND, Absent, Absent),
      Disk(W_SELF, Absent, Absent),
      Disk(W_CYCLE, Absent, Absent),
      Disk(W_TANGLE, Absent, Absent),
      Disk(W_TO_SUB, S_BACK, Absent),
      Disk(W_SPAN, S_BACK, Absent),
      Disk(W_SELFINC, Absent, Absent),
      Disk(W_INC_S, S_INC_T, T_INC_S) }

\* fs::exists
exists(p, disk) ==
    \/ is_directory(p)
    \/ is_regular_file(p)
    \/ p \in ConfigPaths /\ disk[p] # Absent

\* ------------------------------------------------------------------ ConfigLog

EmptyLog == [file_context |-> EmptyPath, messages |-> << >>]

\* ConfigLog::make_message: the context is kept when the literal is empty
make_message(log, severity, msg, context) ==
    [message |-> msg, severity |-> severity, file |-> log.file_context,
     context |-> IF context = "" THEN <<[quoted |-> context]>> ELSE << >>]

error(log, msg, context) ==
    [log EXCEPT !.messages = Append(@, make_message(log, "Error", msg, context))]
warn(log, msg, context) ==
    [log EXCEPT !.messages = Append(@, make_message(log, "Warning", msg, context))]
in_file(log, path) == [log EXCEPT !.file_context = path]

\* ------------------------------------------- FilePatternParser on a file tree

\* the caps of FilePatternParser::dfs, 20'000 and 1'000 in the source, and the
\* number of symbolic links the system follows in one path (40 on Linux),
\* scaled down to the size of the trees below
DirCap == 2
EntryCap == 4
MaxLinks == 2

\* a file tree: the listing of every directory in the order of
\* fs::directory_iterator, the regular files, the symbolic links with their
\* targets, and the directories that cannot be opened
Tree(dirs, files, links, denied) ==
    [dirs |-> dirs, files |-> files, links |-> links, denied |-> denied]

\* the tree of the workspace: /lnk is a link to /w
FS_W == Tree((RootPath :> <<"lnk", "w">>) @@ (W_DIR :> <<"a.art", "b.art", "d.art", "sub">>)
               @@ (SUB_DIR :> <<"c.art", "e.art">>),
             {A_ART, B_ART, D_ART, C_ART, E_ART}, (<<"/", "lnk">> :> W_DIR), {})
\* the same with /w/sub/loop, a link back to /w
FS_LOOP == Tree((RootPath :> <<"w">>) @@ (W_DIR :> <<"a.art", "sub">>)
                  @@ (SUB_DIR :> <<"c.art", "loop">>),
                {A_ART, C_ART}, (<<"/", "w", "sub", "loop">> :> W_DIR), {})
\* /w with more sub-directories than DirCap and more entries than EntryCap
FS_WIDE == Tree((RootPath :> <<"w">>) @@ (W_DIR :> <<"d1", "d2", "d3", "a.art", "b.art">>)
                  @@ (<<"/", "w", "d1">> :> <<"d4", "d5", "c.art">>)
                  @@ (<<"/", "w", "d2">> :> << >>)
                  @@ (<<"/", "w", "d3">> :> <<"e.art">>)
                  @@ (<<"/", "w", "d1", "d4">> :> <<"d.art">>)
                  @@ (<<"/", "w", "d1", "d5">> :> << >>),
                {A_ART, B_ART, <<"/", "w", "d1", "c.art">>, <<"/", "w", "d3", "e.art">>,
                 <<"/", "w", "d1", "d4", "d.art">>}, << >>, {})
\* /w/sub cannot be opened
FS_DENIED == Tree((RootPath :> <<"w">>) @@ (W_DIR :> <<"a.art", "sub">>)
                    @@ (SUB_DIR :> <<"c.art">>),
                  {A_ART, C_ART}, << >>, {SUB_DIR})

RECURSIVE resolve(_, _, _, _, _)
\* the system's path resolution from segment k on: the path without links, or
\* an error when more than MaxLinks links are on the way (ELOOP)
resolve(p, k, cur, n, tree) ==
    IF k > Len(p) THEN [path |-> cur, error |-> FALSE]
    ELSE IF Has(tree.links, Append(cur, p[k]))
    THEN (IF n = MaxLinks THEN [path |-> cur, error |-> TRUE]
          ELSE resolve(p, k + 1, tree.links[Append(cur, p[k])], n + 1, tree))
    ELSE resolve(p, k + 1, Append(cur, p[k]), n, tree)

\* fs::status: "directory", "regular", "not_found", or "error", with which the
\* throwing overloads of is_directory, is_regular_file and exists throw
status_of(r, tree) ==
    IF r.error THEN "error"
    ELSE IF Has(tree.dirs, r.path) THEN "directory"
    ELSE IF r.path \in tree.files THEN "regular"
    ELSE "not_found"
status(p, tree) == status_of(resolve(p, 2, RootPath, 0, tree), tree)
canonical(p, tree) == resolve(p, 2, RootPath, 0, tree).path

\* fs::directory_iterator(base): it throws when base cannot be opened
opens(base, tree) ==
    status(base, tree) = "directory" /\ canonical(base, tree) \notin tree.denied
listing(base, tree) == tree.dirs[canonical(base, tree)]

RECURSIVE path_string(_)
path_string(p) ==
    IF Len(p) <= 1 THEN "/"
    ELSE IF Len(p) = 2 THEN "/" \o p[2]
    ELSE path_string(SubSeq(p, 1, Len(p) - 1)) \o "/" \o Last(p)

\* FilePatternParser::expand_home; home is << >> when HOME is not set
expand_home(root, parts, home) ==
    LET tilde == Len(parts) >= 2 /\ parts[1] = "~"
        root1 == IF tilde THEN (IF home # << >> THEN home[1] ELSE RootPath) ELSE root
        parts1 == IF tilde THEN Tail(parts) ELSE parts
        slash == Len(parts1) >= 2 /\ parts1[1] = ""
    IN [root |-> IF slash THEN RootPath ELSE root1,
        parts |-> IF slash THEN Tail(parts1) ELSE parts1]

\* the state of a FilePatternParser: results, dedup, the log, and whether a
\* std::filesystem call has thrown; explored is an observation: the number of
\* directories that the loops of the "**" case have gone into
NewParser(log) ==
    [results |-> << >>, dedup |-> {}, log |-> log, raised |-> FALSE, explored |-> 0]
raise(st) == [st EXCEPT !.raised = TRUE]

\* results without the dedup set
glob_record_always(st, p) == [st EXCEPT !.results = Append(@, p)]

\* if(dedup.insert(norm).second) results.emplace_back(norm)
glob_record(st, p) ==
    IF p \in st.dedup THEN st
    ELSE [st EXCEPT !.dedup = @ \cup {p}, !.results = Append(@, p)]

\* "if base is a regular file, record it"
glob_file(st, p, tree) ==
    IF status(p, tree) = "error" THEN raise(st)
    ELSE IF status(p, tree) = "regular" THEN glob_record(st, canonical(p, tree))
    ELSE st

RECURSIVE glob_dfs(_, _, _, _, _)
RECURSIVE glob_subdirs(_, _, _, _, _, _, _)
RECURSIVE glob_entries(_, _, _, _, _, _)

\* the loop of the "**" case from entry k on; dir_count is local to the call
glob_subdirs(idx, base, parts, st, tree, k, dir_count) ==
    IF st.raised \/ k > Len(listing(base, tree)) THEN st
    ELSE IF status(Append(base, listing(base, tree)[k]), tree) = "error" THEN raise(st)
    ELSE IF status(Append(base, listing(base, tree)[k]), tree) # "directory"
    THEN glob_subdirs(idx, base, parts, st, tree, k + 1, dir_count)
    ELSE IF dir_count + 1 > DirCap
    THEN [st EXCEPT !.log = warn(@, "Stopped expanding '**' due to excessive directories",
                                 parts[idx])]
    ELSE glob_subdirs(idx, base, parts,
                      glob_dfs(idx, Append(base, listing(base, tree)[k]), parts,
                               [st EXCEPT !.explored = @ + 1], tree),
                      tree, k + 1, dir_count + 1)

\* the loop of the wildcard case from entry k on; checked is k
glob_entries(idx, base, parts, st, tree, k) ==
    IF st.raised \/ k > Len(listing(base, tree)) THEN st
    ELSE IF k > EntryCap
    THEN [st EXCEPT !.log = warn(@, "Stopped expanding wildcard: too many entries",
                                 parts[idx])]
    ELSE IF ~fnmatch(parts[idx], listing(base, tree)[k])
    THEN glob_entries(idx, base, parts, st, tree, k + 1)
    ELSE IF status(Append(base, listing(base, tree)[k]), tree) = "error" THEN raise(st)
    ELSE IF idx = Len(parts)
    THEN glob_entries(idx, base, parts,
                      glob_file(st, Append(base, listing(base, tree)[k]), tree), tree, k + 1)
    ELSE IF status(Append(base, listing(base, tree)[k]), tree) = "directory"
    THEN glob_entries(idx, base, parts,
                      glob_dfs(idx + 1, Append(base, listing(base, tree)[k]), parts, st, tree),
                      tree, k + 1)
    ELSE glob_entries(idx, base, parts, st, tree, k + 1)

\* the directory_iterator of the "**" case, after "match zero directories"
glob_iterate(idx, base, parts, st, tree) ==
    IF st.raised THEN st
    ELSE IF ~opens(base, tree) THEN raise(st)
    ELSE glob_subdirs(idx, base, parts, st, tree, 1, 0)

\* FilePatternParser::dfs with its caps, its warnings and the exceptions of
\* std::filesystem; idx counts the segments from 1
glob_dfs(idx, base, parts, st, tree) ==
    IF st.raised THEN st
    ELSE IF idx = Len(parts) + 1 THEN glob_file(st, base, tree)
    ELSE IF parts[idx] = "**"
    THEN glob_iterate(idx, base, parts, glob_dfs(idx + 1, base, parts, st, tree), tree)
    ELSE IF ~is_wildcard(parts[idx])
    THEN (IF idx = Len(parts) THEN glob_file(st, Append(base, parts[idx]), tree)
          ELSE IF status(Append(base, parts[idx]), tree) = "error" THEN raise(st)
          ELSE IF status(Append(base, parts[idx]), tree) = "directory"
          THEN glob_dfs(idx + 1, Append(base, parts[idx]), parts, st, tree)
          ELSE st)
    ELSE IF ~opens(base, tree) THEN raise(st)
    ELSE glob_entries(idx, base, parts, st, tree, 1)

\* FilePatternParser::expand() after expand_home
expand_from(h, tree, log) ==
    IF status(h.root, tree) = "error" THEN raise(NewParser(log))
    ELSE IF status(h.root, tree) # "directory"
    THEN NewParser(error(log, "Folder does not exist: {}", path_string(h.root)))
    ELSE glob_dfs(1, h.root, h.parts, NewParser(log), tree)

\* the constructor of FilePatternParser: [results, dedup, log, raised]
FilePatternParser(root, parts, home, tree, log) ==
    expand_from(expand_home(root, parts, home), tree, log)

\* ------------------------------------------------------------- ConfigParser

\* to_absolute_path for a path relative to base_dir
to_absolute_path(base_dir, rel) == weakly_canonical(base_dir \o rel)

IncludeConfig(path, raw, optional) ==
    [path |-> path, raw_path_string |-> raw, is_optional |-> optional]

\* ConfigParser::parse_project: [ok, project, log]
parse_project(pj, config_path, log) ==
    IF ~pj.has_name
    THEN [ok |-> FALSE, log |-> error(log, "Every project must have a name", "projects")]
    ELSE LET root == parent_path(config_path)
             res == to_absolute_path(root, pj.folder)
             bad_folder == pj.folder # << >> /\ ~is_directory(res)
             root_dir == IF pj.folder = << >> \/ bad_folder THEN root ELSE res
         IN [ok |-> TRUE,
             project |-> [name |-> pj.name, root_dir |-> root_dir, origin |-> config_path,
                          file_patterns |-> pj.files,
                          files |-> materialize(root_dir, pj.files),
                          dependencies |-> pj.dependencies],
             log |-> IF bad_folder
                     THEN error(log, "Project folder does not exist", pj.folder[1])
                     ELSE log]

\* the string of a pattern in "files": "!" in front of an exclusion
RECURSIVE pattern_path(_)
pattern_path(parts) ==
    IF Len(parts) <= 1 THEN (IF parts = << >> THEN "" ELSE parts[1])
    ELSE parts[1] \o "/" \o pattern_path(Tail(parts))
pattern_string(q) == IF q.excl THEN "!" \o pattern_path(q.parts) ELSE pattern_path(q.parts)

info(log, msg, context) ==
    [log EXCEPT !.messages = Append(@, make_message(log, "Information", msg, context))]

RECURSIVE include_patterns(_, _, _)
\* "Evaluate include patterns": [files, log], files being matched_files
include_patterns(root, patterns, r) ==
    IF patterns = << >> THEN r
    ELSE include_patterns(root, Tail(patterns),
             IF expand(root, Head(patterns).parts) = << >>
             THEN [r EXCEPT !.log = warn(@, "0 files", pattern_string(Head(patterns)))]
             ELSE [files |-> r.files \cup Range(expand(root, Head(patterns).parts)),
                   log |-> info(r.log, "+ files", pattern_string(Head(patterns)))])

RECURSIVE exclude_patterns(_, _, _)
\* the loop over the exclusions: pattern.substr(1) is expanded and erased
exclude_patterns(root, patterns, r) ==
    IF patterns = << >> THEN r
    ELSE exclude_patterns(root, Tail(patterns),
             IF expand(root, Head(patterns).parts) = << >>
             THEN [r EXCEPT !.log = warn(@, "0 files excluded", pattern_string(Head(patterns)))]
             ELSE [files |-> r.files \ Range(expand(root, Head(patterns).parts)),
                   log |-> info(r.log, "- files", pattern_string(Head(patterns)))])

RECURSIVE evaluate_patterns_in_order(_, _, _)
\* evaluate_patterns with the patterns taken one by one in the order of "files"
evaluate_patterns_in_order(root, patterns, log) ==
    IF patterns = << >> THEN [files |-> {}, log |-> log]
    ELSE IF Last(patterns).excl
    THEN exclude_patterns(root, <<Last(patterns)>>,
             evaluate_patterns_in_order(root, SubSeq(patterns, 1, Len(patterns) - 1), log))
    ELSE include_patterns(root, <<Last(patterns)>>,
             evaluate_patterns_in_order(root, SubSeq(patterns, 1, Len(patterns) - 1), log))

\* ConfigParser::evaluate_patterns: [files, log]
evaluate_patterns(root, patterns, log) ==
    exclude_patterns(root, SelectSeq(patterns, LAMBDA q : q.excl),
        include_patterns(root, SelectSeq(patterns, LAMBDA q : ~q.excl),
                         [files |-> {}, log |-> log]))

\* one round of the loop over "projects": the project is kept if it parsed
add_parsed(projects, one) ==
    [projects |-> IF one.ok THEN Append(projects, one.project) ELSE projects,
     log |-> one.log]
add_project(before, pj, config_path) ==
    add_parsed(before.projects, parse_project(pj, config_path, before.log))

RECURSIVE parse_projects(_, _, _)
\* the loop over "projects": [projects, log]
parse_projects(pjs, config_path, log) ==
    IF pjs = << >> THEN [projects |-> << >>, log |-> log]
    ELSE add_project(parse_projects(SubSeq(pjs, 1, Len(pjs) - 1), config_path, log),
                     Last(pjs), config_path)

RECURSIVE unknown_keys(_, _)
unknown_keys(keys, log) ==
    IF keys = << >> THEN log
    ELSE error(unknown_keys(SubSeq(keys, 1, Len(keys) - 1), log),
               "unknown json property", Last(keys))

\* the version check: every version but "2.0" is reported as unsupported, the
\* branch for "1.0" is behind the test for "2.0"
check_version(j, log) ==
    IF j.version # "2.0"
    THEN warn(log, "Unsupported artic-config version", "artic-config")
    ELSE IF j.version = "1.0"
    THEN warn(log, "Deprecated artic-config version", "artic-config")
    ELSE log

\* the loop over "include"
parse_includes(incs, config_path) ==
    [i \in 1..Len(incs) |->
        IncludeConfig(to_absolute_path(parent_path(config_path), incs[i].rel),
                      incs[i].raw, incs[i].optional)]

\* the result of a successful parse: [success, config, projects, log]
parsed(origin, j, inl, projects) ==
    [success |-> TRUE,
     config |-> [version |-> j.version, path |-> origin.path,
                 default_project |->
                     IF j.default.kind = "ref" THEN <<j.default.name>>
                     ELSE IF inl.ok THEN <<inl.project.name>>
                     ELSE << >>,
                 projects |-> [i \in 1..Len(projects) |-> projects[i].name],
                 includes |-> parse_includes(j.include, origin.path)],
     projects |-> projects,
     log |-> inl.log]

\* an inline "default-project" joins the projects of the file
with_default(origin, j, named, inl) ==
    parsed(origin, j, inl,
           IF inl.ok THEN Append(named.projects, inl.project) ELSE named.projects)

parse_default(origin, j, named) ==
    with_default(origin, j, named,
                 IF j.default.kind = "inline"
                 THEN parse_project(j.default.project, origin.path, named.log)
                 ELSE [ok |-> FALSE, log |-> named.log])

\* the document of the file has been read
parse_json(origin, j, log1) ==
    IF ~j.json_ok
    THEN [success |-> FALSE, log |-> error(log1, "Failed to parse json", "")]
    ELSE IF ~j.has_header
    THEN [success |-> FALSE, log |-> error(log1, "Missing artic-config header", "")]
    ELSE parse_default(origin, j,
             parse_projects(j.projects, origin.path,
                            check_version(j, unknown_keys(j.unknown_keys, log1))))

\* ConfigParser::parse: [success, config, projects, log]
parse(origin, disk, log0) ==
    IF origin.path = EmptyPath
    THEN [success |-> FALSE, log |-> error(log0, "Config file path is empty", "include")]
    ELSE IF ~exists(origin.path, disk)
    THEN [success |-> FALSE,
          log |-> IF origin.is_optional THEN log0
                  ELSE error(log0, "Config file does not exist", origin.raw_path_string)]
    ELSE parse_json(origin, disk[origin.path], in_file(log0, origin.path))

\* ------------------------------------------------------------------ Workspace
\* A workspace value is [projects, files, configs, cache]:
\*   projects  Project::Identifier -> Project        (projects_)
\*   files     canonical path -> text or NoText      (files_)
\*   configs   path -> ConfigFile                    (configs_)
\*   cache     canonical path -> project name        (project_for_file_cache_)
\*   parses    path -> how often ConfigParser::parse ran for it since the last
\*             reload, counted up to MaxParses (an observation, no field)

NewWorkspace ==
    [projects |-> << >>, files |-> << >>, configs |-> << >>, cache |-> << >>,
     parses |-> << >>]

\* Workspace::reload
reload(w) == NewWorkspace

\* Workspace::tracked_file: the File of the canonical path, created on first use
tracked_file(w, file) ==
    LET f == weakly_canonical(file)
    IN IF Has(w.files, f) THEN w ELSE [w EXCEPT !.files = Put(@, f, NoText)]

RECURSIVE track_all(_, _)
track_all(w, paths) ==
    IF paths = << >> THEN w ELSE track_all(tracked_file(w, Head(paths)), Tail(paths))

\* Workspace::set_file_content
set_file_content(w, file, content) ==
    LET w1 == tracked_file(w, file)
    IN [w1 EXCEPT !.files[weakly_canonical(file)] = content]

\* Workspace::mark_file_dirty
mark_file_dirty(w, file) ==
    LET w1 == tracked_file(w, file)
    IN [w1 EXCEPT !.files[weakly_canonical(file)] = NoText]

\* the stack a walk over the projects can use before it overflows: a walk
\* deeper than the number of projects is inside a dependency cycle
StackDepth(w) == Cardinality(DOMAIN w.projects) + 1

RECURSIVE uses_file(_, _, _, _)
RECURSIVE uses_file_deps(_, _, _, _)
\* Workspace::uses_file: "yes", "no", or "overflow" when the recursion never ends
uses_file(w, id, file, fuel) ==
    IF fuel = 0 THEN "overflow"
    ELSE IF Contains(w.projects[id].files, file) THEN "yes"
    ELSE uses_file_deps(w, w.projects[id].dependencies, file, fuel)

uses_file_deps(w, deps, file, fuel) ==
    IF deps = << >> THEN "no"
    ELSE LET r == IF Has(w.projects, Head(deps))
                  THEN uses_file(w, Head(deps), file, fuel - 1) ELSE "no"
         IN IF r = "no" THEN uses_file_deps(w, Tail(deps), file, fuel) ELSE r

RECURSIVE files_for_project(_, _, _)
RECURSIVE files_for_deps(_, _, _)
\* files_for_project without the loop over the dependencies
files_for_project_own(w, id, fuel) ==
    IF fuel = 0 THEN [overflow |-> TRUE, files |-> << >>]
    ELSE [overflow |-> FALSE, files |-> w.projects[id].files]

\* Workspace::files_for_project: [overflow, files]
files_for_project(w, id, fuel) ==
    IF fuel = 0 THEN [overflow |-> TRUE, files |-> << >>]
    ELSE LET d == files_for_deps(w, w.projects[id].dependencies, fuel)
         IN [overflow |-> d.overflow, files |-> w.projects[id].files \o d.files]

files_for_deps(w, deps, fuel) ==
    IF deps = << >> THEN [overflow |-> FALSE, files |-> << >>]
    ELSE LET h == IF Has(w.projects, Head(deps))
                  THEN files_for_project(w, Head(deps), fuel - 1)
                  ELSE [overflow |-> FALSE, files |-> << >>]
             t == files_for_deps(w, Tail(deps), fuel)
         IN [overflow |-> h.overflow \/ t.overflow, files |-> h.files \o t.files]

\* ---- instantiate_config

RECURSIVE register_projects(_, _, _, _)
\* "track projects": the first definition of a name wins: [w, log]
register_projects(w, log, projects, origin_path) ==
    IF projects = << >> THEN [w |-> w, log |-> log]
    ELSE LET p == Head(projects)
         IN IF Has(w.projects, p.name)
            THEN register_projects(w,
                     warn(in_file(log, origin_path), "ignoring duplicate definition", p.name),
                     Tail(projects), origin_path)
            ELSE register_projects([w EXCEPT !.projects = Put(@, p.name, p)], log,
                     Tail(projects), origin_path)

RECURSIVE detect_cycle(_, _, _, _)
RECURSIVE detect_deps(_, _, _, _, _)
\* detect_cycle with a project that was visited before taken for one that is
\* on the stack
detect_cycle_visited(project_name, parent, c, stale) ==
    IF ~Has(c.projects, project_name) THEN [c |-> c, found |-> FALSE]
    ELSE IF project_name \in c.rec_stack \/ project_name \in c.visited
    THEN [c |-> [c EXCEPT
                   !.log = error(in_file(c.log, c.projects[parent].origin),
                                 "Circular dependency detected", project_name),
                   !.projects[parent].dependencies = Without(@, project_name)],
          found |-> TRUE]
    ELSE [c |-> [detect_deps(project_name, 1, c.projects[project_name].dependencies,
                             [c EXCEPT !.visited = @ \cup {project_name},
                                       !.rec_stack = @ \cup {project_name}], stale)
                    EXCEPT !.rec_stack = @ \ {project_name}],
          found |-> FALSE]

\* the detect_cycle lambda over c = [projects, visited, rec_stack, log]: [c, found]
detect_cycle(project_name, parent, c, stale) ==
    IF ~Has(c.projects, project_name) THEN [c |-> c, found |-> FALSE]
    ELSE IF project_name \in c.rec_stack
    THEN [c |-> [c EXCEPT
                   !.log = error(in_file(c.log, c.projects[parent].origin),
                                 "Circular dependency detected", project_name),
                   !.projects[parent].dependencies = Without(@, project_name)],
          found |-> TRUE]
    ELSE IF project_name \in c.visited THEN [c |-> c, found |-> FALSE]
    ELSE LET c1 == [c EXCEPT !.visited = @ \cup {project_name},
                             !.rec_stack = @ \cup {project_name}]
             c2 == detect_deps(project_name, 1, c1.projects[project_name].dependencies,
                               c1, stale)
         IN [c |-> [c2 EXCEPT !.rec_stack = @ \ {project_name}], found |-> FALSE]

\* the range-for over proj->dependencies: begin and end are taken once, so after
\* an erase by the callee the element shifted into place is skipped and the
\* slots past the new end are read as destroyed strings (undefined behaviour:
\* "empty" reads "", "old" reads what the slot held when the loop began)
detect_deps(project_name, i, at_begin, c, stale) ==
    IF i > Len(at_begin) THEN c
    ELSE LET deps == c.projects[project_name].dependencies
             dep == IF i <= Len(deps) THEN deps[i]
                    ELSE IF stale = "old" THEN at_begin[i] ELSE ""
         IN detect_deps(project_name, i + 1, at_begin,
                        detect_cycle(dep, project_name, c, stale).c, stale)

RECURSIVE check_cycles(_, _, _, _)
\* the workspace takes over the projects and the log of one detect_cycle run
check_next(w, r, pairs, stale) ==
    check_cycles([w EXCEPT !.projects = r.projects], r.log, pairs, stale)

\* "Check each project for cycles": pairs = <<project.name, dep>> of the parsed projects
check_cycles(w, log, pairs, stale) ==
    IF pairs = << >> THEN [w |-> w, log |-> log]
    ELSE check_next(w,
                    detect_cycle(Head(pairs)[1], Head(pairs)[2],
                                 [projects |-> w.projects, visited |-> {},
                                  rec_stack |-> {}, log |-> log], stale).c,
                    Tail(pairs), stale)

RECURSIVE dependency_pairs(_)
dependency_pairs(projects) ==
    IF projects = << >> THEN << >>
    ELSE [i \in 1..Len(Head(projects).dependencies) |->
             <<Head(projects).name, Head(projects).dependencies[i]>>]
         \o dependency_pairs(Tail(projects))

RECURSIVE instantiate_config(_, _, _, _, _)
RECURSIVE instantiate_includes(_, _, _, _, _, _)
RECURSIVE instantiate_parsed(_, _, _, _, _)
RECURSIVE instantiate_registered(_, _, _, _)
RECURSIVE include_one(_, _, _, _, _, _)

\* the end of instantiate_config: log.file_context = ""
instantiate_checked(cyc) == [ok |-> TRUE, w |-> cyc.w, log |-> in_file(cyc.log, EmptyPath)]

\* after the includes: the cycle check over the projects of this file
instantiate_included(parser, inc, stale) ==
    instantiate_checked(check_cycles(inc.w, inc.log,
                                     dependency_pairs(parser.projects), stale))

\* after "track projects": the includes
instantiate_registered(parser, reg, disk, stale) ==
    instantiate_included(parser,
        instantiate_includes(parser.config.includes, parser.config.path,
                             reg.w, reg.log, disk, stale),
        stale)

\* after the parse: "track config", "track projects"
instantiate_parsed(origin, w, parser, disk, stale) ==
    IF ~parser.success THEN [ok |-> FALSE, w |-> w, log |-> parser.log]
    ELSE instantiate_registered(parser,
             register_projects([w EXCEPT !.configs = Put(@, origin.path, parser.config)],
                               parser.log, parser.projects, origin.path),
             disk, stale)

\* one more run of the parser for path
parse_counted(w, path) ==
    [w EXCEPT !.parses = Put(@, path, IF Has(@, path) /\ @[path] >= MaxParses - 1
                                      THEN MaxParses
                                      ELSE IF Has(@, path) THEN @[path] + 1 ELSE 1)]

\* instantiate_config with a warning for a configuration file that is entered
\* a second time
instantiate_config_reporting(origin, w, log, disk, stale) ==
    IF Has(w.configs, origin.path)
    THEN [ok |-> TRUE, w |-> w,
          log |-> warn(in_file(log, origin.path), "already loaded", "")]
    ELSE instantiate_parsed(origin, parse_counted(w, origin.path),
                            parse(origin, disk, log), disk, stale)

\* Workspace::instantiate_config: [ok, w, log]
instantiate_config(origin, w, log, disk, stale) ==
    IF Has(w.configs, origin.path) THEN [ok |-> TRUE, w |-> w, log |-> log]
    ELSE instantiate_parsed(origin, parse_counted(w, origin.path),
                            parse(origin, disk, log), disk, stale)

\* an include that was instantiated, or failed to
included(sub, origin_path, include) ==
    [w |-> sub.w,
     log |-> IF sub.ok THEN sub.log
             ELSE error(in_file(sub.log, origin_path), "Failed to include config",
                        include.raw_path_string)]

\* one round of "recurse included configs": [w, log]
include_one(include, origin_path, w, log, disk, stale) ==
    IF exists(include.path, disk)
    THEN included(instantiate_config(include, w, log, disk, stale), origin_path, include)
    ELSE [w |-> w,
          log |-> IF include.is_optional THEN in_file(log, origin_path)
                  ELSE error(in_file(log, origin_path), "Config file does not exist",
                             include.raw_path_string)]

includes_next(rest, origin_path, r, disk, stale) ==
    instantiate_includes(rest, origin_path, r.w, r.log, disk, stale)

\* "recurse included configs": [w, log]
instantiate_includes(includes, origin_path, w, log, disk, stale) ==
    IF includes = << >> THEN [w |-> w, log |-> log]
    ELSE includes_next(Tail(includes), origin_path,
                       include_one(Head(includes), origin_path, w, log, disk, stale),
                       disk, stale)

\* ---- project discovery
\* The walks below return [w, log, project, fault]: project is << >> (nullptr)
\* or <<name>>; fault is "none", "hang" (a loop that never ends) or "overflow"
\* (a recursion that never ends).

\* file_names with artic.json in front
ConfigFileNamesReversed == <<"artic.json", ".artic-lsp">>
\* file_names of find_config_in_dir
ConfigFileNames == <<".artic-lsp", "artic.json">>

RECURSIVE find_config_in_dir(_, _, _, _, _, _)
\* the configuration file at path was instantiated, or failed to
config_instantiated(dir, k, path, r, disk, stale) ==
    IF r.ok THEN [w |-> r.w, log |-> r.log, config |-> <<path>>]
    ELSE find_config_in_dir(dir, k + 1, r.w, r.log, disk, stale)

\* find_config_in_dir without the look whether the file exists
find_config_in_dir_unchecked(dir, k, w, log, disk, stale) ==
    IF k > Len(ConfigFileNames) THEN [w |-> w, log |-> log, config |-> << >>]
    ELSE IF Has(w.configs, Append(dir, ConfigFileNames[k]))
    THEN [w |-> w, log |-> log, config |-> <<Append(dir, ConfigFileNames[k])>>]
    ELSE config_instantiated(dir, k, Append(dir, ConfigFileNames[k]),
             instantiate_config(IncludeConfig(Append(dir, ConfigFileNames[k]), "", FALSE),
                                w, log, disk, stale),
             disk, stale)

\* Workspace::find_config_in_dir, from file name k on: [w, log, config]
find_config_in_dir(dir, k, w, log, disk, stale) ==
    IF k > Len(ConfigFileNames) THEN [w |-> w, log |-> log, config |-> << >>]
    ELSE IF ~exists(Append(dir, ConfigFileNames[k]), disk)
    THEN find_config_in_dir(dir, k + 1, w, log, disk, stale)
    ELSE IF Has(w.configs, Append(dir, ConfigFileNames[k]))
    THEN [w |-> w, log |-> log, config |-> <<Append(dir, ConfigFileNames[k])>>]
    ELSE config_instantiated(dir, k, Append(dir, ConfigFileNames[k]),
             instantiate_config(IncludeConfig(Append(dir, ConfigFileNames[k]), "", FALSE),
                                w, log, disk, stale),
             disk, stale)

RECURSIVE first_project_using(_, _, _)
first_or_next(w, ids, file, u) ==
    IF u = "overflow" THEN [project |-> << >>, overflow |-> TRUE]
    ELSE IF u = "yes" THEN [project |-> <<Head(ids)>>, overflow |-> FALSE]
    ELSE first_project_using(w, Tail(ids), file)

\* the loop of find_project_in_config_using_file: [project, overflow]
first_project_using(w, ids, file) ==
    IF ids = << >> THEN [project |-> << >>, overflow |-> FALSE]
    ELSE first_or_next(w, ids, file,
                       IF Has(w.projects, Head(ids))
                       THEN uses_file(w, Head(ids), file, StackDepth(w)) ELSE "no")

\* the default project of the configuration file is the fallback
or_default_project(w, config, named) ==
    IF named.overflow \/ named.project # << >> THEN named
    ELSE IF config.default_project # << >> /\ Has(w.projects, config.default_project[1])
    THEN [project |-> config.default_project, overflow |-> FALSE]
    ELSE named

\* Workspace::find_project_in_config_using_file: [project, overflow]
find_project_in_config_using_file(w, config_path, file) ==
    or_default_project(w, w.configs[config_path],
                       first_project_using(w, w.configs[config_path].projects, file))

RECURSIVE find_config_recursive(_, _, _, _, _, _)
\* the project of the configuration file found in dir, or the parent directory
project_or_parent(dir, file, c, p, disk, stale) ==
    IF p.overflow
    THEN [w |-> c.w, log |-> c.log, project |-> << >>, fault |-> "overflow"]
    ELSE IF p.project # << >>
    THEN [w |-> c.w, log |-> c.log, project |-> p.project, fault |-> "none"]
    ELSE find_config_recursive(parent_path(dir), file, c.w, c.log, disk, stale)

config_in_dir(dir, file, c, disk, stale) ==
    project_or_parent(dir, file, c,
        IF c.config = << >> THEN [project |-> << >>, overflow |-> FALSE]
        ELSE find_project_in_config_using_file(c.w, c.config[1], file),
        disk, stale)

\* Workspace::find_config_recursive: the walk ends at "/"; from "" it never ends
find_config_recursive(dir, file, w, log, disk, stale) ==
    IF dir = RootPath THEN [w |-> w, log |-> log, project |-> << >>, fault |-> "none"]
    ELSE IF dir = EmptyPath THEN [w |-> w, log |-> log, project |-> << >>, fault |-> "hang"]
    ELSE config_in_dir(dir, file, find_config_in_dir(dir, 1, w, log, disk, stale),
                       disk, stale)

\* a project that was found is remembered for the file
cache_project(r, file) ==
    IF r.project # << >> THEN [r EXCEPT !.w.cache = Put(@, file, r.project[1])] ELSE r

\* discovery for the canonical path
discover_canonical(w, file, log, disk, stale) ==
    IF Has(w.cache, file)
    THEN [w |-> w, log |-> log, project |-> <<w.cache[file]>>, fault |-> "none"]
    ELSE cache_project(find_config_recursive(parent_path(file), file, w, log, disk, stale),
                       file)

\* Workspace::discover_project_for_file
discover_project_for_file(w, file, log, disk, stale) ==
    discover_canonical(w, weakly_canonical(file), log, disk, stale)

\* the File records of the compile set are tracked
tracked_files(d, files) ==
    [w |-> track_all(d.w, files), log |-> d.log, files |-> files, fault |-> "none"]

\* project_files without the push_back of the file itself: the compile set
\* is what the project and its dependencies list
project_files_as_listed(d, file, fp) ==
    IF fp.overflow
    THEN [w |-> d.w, log |-> d.log, files |-> << >>, fault |-> "overflow"]
    ELSE tracked_files(d, fp.files)

\* the file is appended when the project found does not use it
project_files(d, file, fp) ==
    IF fp.overflow
    THEN [w |-> d.w, log |-> d.log, files |-> << >>, fault |-> "overflow"]
    ELSE tracked_files(d,
             IF uses_file(d.w, d.project[1], file, StackDepth(d.w)) # "yes"
             THEN Append(fp.files, weakly_canonical(file)) ELSE fp.files)

files_of_discovered(d, file) ==
    IF d.fault # "none"
    THEN [w |-> d.w, log |-> d.log, files |-> << >>, fault |-> d.fault]
    ELSE IF d.project # << >>
    THEN project_files(d, file, files_for_project(d.w, d.project[1], StackDepth(d.w)))
    ELSE [w |-> tracked_file(d.w, file), log |-> d.log,
          files |-> <<weakly_canonical(file)>>, fault |-> "none"]

\* Workspace::collect_project_files: [w, log, files, fault]; files are the
\* paths of the File records handed to the compiler, in order
collect_project_files(w, file, log, disk, stale) ==
    files_of_discovered(discover_project_for_file(w, file, log, disk, stale), file)

\* Workspace::on_config_changed: a tracked configuration file reloads the
\* workspace, an untracked one is ignored: [known, w]
on_config_changed(w, path) ==
    IF Has(w.configs, weakly_canonical(path))
    THEN [known |-> TRUE, w |-> reload(w)]
    ELSE [known |-> FALSE, w |-> w]

\* --------------------------------------------------------------- source texts

\* what the editor can send as the full text of a document
EditTexts == {"good", "bad"}
\* the lexer and parser report no error
Parses(text) == text \in {"disk", "good"}

\* read_file: source files on disk hold the text "disk", a configuration file
\* holds JSON
read_file(p, disk) ==
    IF is_regular_file(p) THEN "disk"
    ELSE IF p \in ConfigPaths /\ disk[p] # Absent THEN "json"
    ELSE NoText

\* File::read on every file of the compile set
RECURSIVE read_all(_, _, _)
read_all(w, files, disk) ==
    IF files = << >> THEN w
    ELSE LET f == Head(files)
             w1 == IF w.files[f] = NoText
                   THEN [w EXCEPT !.files[f] = read_file(f, disk)] ELSE w
         IN read_all(w1, Tail(files), disk)

\* --------------------------------------------------------------------- Server
\* The handlers work on S = [w, compile, safe_mode_, pc, out, builds, reloads]:
\*   w           the Workspace
\*   compile     << >> (no result) or <<Compiler>>
\*   pc          "start", "initialized", "serving", "exit0", "exit1" (fatal
\*               exception), "crashed" (signal), "hung" (handler never returns)
\*   out         the messages the handler has sent
\*   builds      the builds the handler has run
\*   reloads     how often the handler has reloaded the workspace

\* Server::get_file_type
get_file_type(file) ==
    IF extension(file) = ".json" \/ extension(file) = ".artic-lsp"
    THEN "ConfigFile" ELSE "SourceFile"

\* Compiler::compile_files on a fresh Compiler: the files that can be read are
\* registered with the locator under File::path
compile_files(w, files, active_file, exclude_non_parsed_files) ==
    LET readable == { f \in Range(files) : w.files[f] # NoText }
    IN [locator |-> [f \in readable |-> w.files[f]],
        program |-> { f \in readable : Parses(w.files[f]) \/ ~exclude_non_parsed_files },
        parsed_all |-> \A f \in readable : Parses(w.files[f]),
        exclude_non_parsed_files |-> exclude_non_parsed_files,
        active_file |-> active_file]

\* compile && compile->locator.data(file)
already_compiled(S, file) == S.compile # << >> /\ Has(S.compile[1].locator, file)

Alive(S) == S.pc \in {"start", "initialized", "serving"}

RECURSIVE message_files(_)
\* the keys of fileDiags, in the order the messages name them
message_files(messages) ==
    IF messages = << >> THEN << >>
    ELSE LET r == message_files(SubSeq(messages, 1, Len(messages) - 1))
         IN Record(r, Last(messages).file)

\* the strings in the text of a project object
project_strings(pj) ==
    (IF pj.has_name THEN <<"name", pj.name>> ELSE << >>)
    \o (IF pj.folder # << >> THEN <<"folder", pj.folder[1]>> ELSE << >>)
    \o <<"files">> \o [i \in 1..Len(pj.files) |-> pattern_string(pj.files[i])]
    \o <<"dependencies">> \o pj.dependencies

RECURSIVE projects_strings(_)
projects_strings(pjs) ==
    IF pjs = << >> THEN << >>
    ELSE project_strings(Head(pjs)) \o projects_strings(Tail(pjs))

\* the strings in the text of a configuration document, keys and values; the
\* text of a document that is not JSON is taken to hold none
document_strings(j) ==
    IF ~j.json_ok THEN << >>
    ELSE (IF j.has_header THEN <<"artic-config", j.version>> ELSE << >>)
         \o j.unknown_keys
         \o <<"projects">> \o projects_strings(j.projects)
         \o (IF j.default.kind = "ref" THEN <<"default-project", j.default.name>>
             ELSE IF j.default.kind = "inline"
             THEN <<"default-project">> \o project_strings(j.default.project)
             ELSE << >>)
         \o (IF j.include = << >> THEN << >>
             ELSE <<"include">> \o [i \in 1..Len(j.include) |-> j.include[i].raw])

\* the find_in_file lambda: how many ranges it returns for the quoted literal
find_in_file(file, context, disk) ==
    IF file \notin ConfigPaths \/ disk[file] = Absent THEN 0
    ELSE Cardinality({ k \in 1..Len(document_strings(disk[file])) :
                         document_strings(disk[file])[k] = context.quoted })

\* the diagnostics of message k, which has n occurrences: `at` is the number of
\* the occurrence, 0 for the range 0:0-0:0
message_diagnostics(m, k, n) ==
    IF n = 0 THEN <<[message |-> m.message, severity |-> m.severity, at |-> 0, of |-> k]>>
    ELSE [i \in 1..n |-> [message |-> m.message, severity |-> m.severity, at |-> i, of |-> k]]

RECURSIVE file_diagnostics(_, _, _, _)
\* fileDiags[file] after the loop over the messages from k on
file_diagnostics(messages, k, file, disk) ==
    IF k > Len(messages) THEN << >>
    ELSE (IF messages[k].file = file
          THEN message_diagnostics(messages[k], k,
                                   IF messages[k].context # << >>
                                   THEN find_in_file(file, messages[k].context[1], disk)
                                   ELSE 0)
          ELSE << >>)
         \o file_diagnostics(messages, k + 1, file, disk)

\* Server::publish_config_diagnostics: msg.context.value() throws
\* std::bad_optional_access for a message without context
publish_config_diagnostics(S, log, disk) ==
    IF ~Alive(S) THEN S
    ELSE IF \E i \in 1..Len(log.messages) : log.messages[i].context = << >>
    THEN [S EXCEPT !.pc = "exit1"]
    ELSE LET uris == message_files(log.messages)
         IN [S EXCEPT !.out = @ \o [i \in 1..Len(uris) |->
                 [method |-> "publishDiagnostics", uri |-> uris[i], from |-> "config",
                  build |-> Len(S.builds),
                  diagnostics |-> file_diagnostics(log.messages, 1, uris[i], disk)]]]

\* the build has the compile set: one more build of this handler
started(S, file, c) ==
    [S EXCEPT !.w = c.w,
              !.builds = Append(@, [file |-> file, files |-> c.files, fault |-> c.fault,
                                    log |-> c.log.messages, completed |-> FALSE])]

\* compiled without the assignment to safe_mode_: the flag stays as it is
compiled_keeping_safe_mode(S, file, files, w1, result) ==
    [S EXCEPT
       !.w = w1,
       !.compile = <<result>>,
       !.builds[Len(S.builds)] =
           [file |-> file, files |-> files, fault |-> "none", completed |-> TRUE,
            log |-> S.builds[Len(S.builds)].log,
            safe |-> S.safe_mode_, parsed_all |-> result.parsed_all,
            texts |-> result.locator],
       !.out = @ \o [i \in 1..Len(files) |->
           [method |-> "publishDiagnostics", uri |-> files[i],
            from |-> "build", build |-> Len(S.builds),
            empty |-> ~(Has(result.locator, files[i])
                        /\ ~Parses(result.locator[files[i]]))]]]

\* the result is in place, safe mode ends with a build that parsed every file,
\* and every element of the compile set gets its publishDiagnostics
compiled(S, file, files, w1, result) ==
    [S EXCEPT
       !.w = w1,
       !.compile = <<result>>,
       !.safe_mode_ = S.safe_mode_ /\ ~result.parsed_all,
       !.builds[Len(S.builds)] =
           [file |-> file, files |-> files, fault |-> "none", completed |-> TRUE,
            log |-> S.builds[Len(S.builds)].log,
            safe |-> S.safe_mode_, parsed_all |-> result.parsed_all,
            texts |-> result.locator],
       !.out = @ \o [i \in 1..Len(files) |->
           [method |-> "publishDiagnostics", uri |-> files[i],
            from |-> "build", build |-> Len(S.builds),
            empty |-> ~(Has(result.locator, files[i])
                        /\ ~Parses(result.locator[files[i]]))]]]

\* compile.emplace() and Compiler::compile_files over the files that were read
compile_read(S, file, active, files, w1) ==
    compiled(S, file, files, w1, compile_files(w1, files, active, S.safe_mode_))

\* after publish_config_diagnostics
compile_published(S, file, active, files, disk) ==
    IF ~Alive(S) \/ files = << >> THEN S
    ELSE compile_read(S, file, active, files, read_all(S.w, files, disk))

\* after collect_project_files
compile_collected(S, file, active, c, disk) ==
    IF c.fault = "hang" THEN [started(S, file, c) EXCEPT !.pc = "hung"]
    ELSE IF c.fault = "overflow" THEN [started(S, file, c) EXCEPT !.pc = "crashed"]
    ELSE compile_published(publish_config_diagnostics(started(S, file, c), c.log, disk),
                           file, active, c.files, disk)

\* Server::compile_this_and_related_files; new_content is << >> or <<text>>;
\* active is what the parameter `file` denotes once compile.emplace() has run
compile_this_and_related_files(S, file, new_content, active, disk, stale) ==
    IF ~Alive(S) THEN S
    ELSE compile_collected(S, file, active,
             collect_project_files(
                 IF new_content # << >>
                 THEN set_file_content(S.w, file, new_content[1]) ELSE S.w,
                 file, EmptyLog, disk, stale),
             disk)

\* a thrown lsp::RequestError becomes the error response of the request
Throw(S, code) == [S EXCEPT !.out = Append(@, [method |-> "error", code |-> code])]
Threw(S) == \E i \in 1..Len(S.out) : S.out[i].method = "error"

\* the end of ensure_compile: no result is an internal error
ensure_result(S) ==
    IF Alive(S) /\ S.compile = << >> THEN Throw(S, "InternalError") ELSE S

\* ensure_compile without the look at the present result: it always builds
ensure_compile_always(S, file, disk, stale) ==
    IF ~Alive(S) \/ Threw(S) THEN S
    ELSE IF get_file_type(file) # "SourceFile" THEN Throw(S, "InvalidParams")
    ELSE ensure_result(compile_this_and_related_files(S, file, << >>, file, disk, stale))

\* Server::ensure_compile
ensure_compile(S, file, disk, stale) ==
    IF ~Alive(S) \/ Threw(S) THEN S
    ELSE IF get_file_type(file) # "SourceFile" THEN Throw(S, "InvalidParams")
    ELSE IF already_compiled(S, file) THEN ensure_result(S)
    ELSE ensure_result(compile_this_and_related_files(S, file, << >>, file, disk, stale))

\* the build for the active file of the present result
rebuild_active(S, active, disk, stale) ==
    IF S.compile # << >>
    THEN compile_this_and_related_files(S, S.compile[1].active_file, << >>,
                                        active, disk, stale)
    ELSE S

\* Server::reload_workspace
reload_workspace(S, active, disk, stale) ==
    rebuild_active(publish_config_diagnostics(
                       [S EXCEPT !.w = reload(S.w), !.reloads = @ + 1], EmptyLog, disk),
                   active, disk, stale)

\* ---------------------------------------------------------------- the server

VARIABLES
    disk,        \* the configuration files on disk
    edits,       \* how often the user has rewritten a configuration file
    workspace_,  \* Server::workspace_
    compile,     \* Server::compile
    safe_mode_,  \* Server::safe_mode_
    pc,          \* where the server process is
    editor,      \* the unsaved text the editor holds for a source file
    msg,         \* << >>, or <<the message whose handler has just run>>
    out,         \* what that handler has sent
    builds,      \* the builds that handler has run
    reloads,     \* how often that handler has reloaded the workspace
    shown,       \* the diagnostics the editor shows for a configuration file
    glob,        \* << >>, or a FilePatternParser with its inputs and its results
    client,      \* << >>, or the language client of the editor extension
    tokens       \* << >>, or the name map of a document and its token stream

vars == <<disk, edits, workspace_, compile, safe_mode_, pc, editor, msg, out, builds,
          reloads, shown, glob, client, tokens>>

\* the variables of the server and those of the parts that are run on their own
server_vars == <<disk, edits, workspace_, compile, safe_mode_, pc, editor, msg, out,
                 builds, reloads, shown>>
parts_vars == <<glob, client, tokens>>

\* the documents the editor talks about
SourceDocs == {A_ART, A_LNK, C_ART, G_ART}
ConfigDocs == {W_CFG, S_CFG}
Docs == SourceDocs \cup ConfigDocs
\* the documents the user edits
ChangeDocs == {A_ART, A_LNK} \cup ConfigDocs
\* what a dangling reference to the discarded result's active_file can read
DanglingReads(file) == {file, EmptyPath}

\* the projects a project of the document j reaches in at most n steps
RECURSIVE Reach(_, _, _)
Reach(j, name, n) ==
    IF n = 0 THEN {}
    ELSE LET direct == UNION { Range(j.projects[i].dependencies) :
                               i \in { k \in 1..Len(j.projects) : j.projects[k].name = name } }
         IN direct \cup UNION { Reach(j, d, n - 1) : d \in direct }
\* detect_cycle removes a dependency only from a configuration with a cycle,
\* which an include can close
Erases(d) ==
    \E c \in ConfigPaths :
        /\ d[c] # Absent
        /\ \/ d[c].include # << >>
           \/ \E i \in 1..Len(d[c].projects) :
                 d[c].projects[i].name \in Reach(d[c], d[c].projects[i].name,
                                                Len(d[c].projects))
\* what the dependency iteration can read past a removed element
StaleReads == IF Erases(disk) THEN {"old", ""} ELSE {"old"}

Message(method, doc, text) == [method |-> method, doc |-> doc, text |-> text]

\* the message loop waits for the next message
Waiting == pc = "serving" /\ msg = << >>

Cur == [w |-> workspace_, compile |-> compile, safe_mode_ |-> safe_mode_,
        pc |-> "serving", out |-> << >>, builds |-> << >>, reloads |-> 0]

\* the handler of message m has run to S
\* textDocument/publishDiagnostics replaces what the editor shows for the uri
RECURSIVE published(_, _, _)
published(sh, output, k) ==
    IF k > Len(output) THEN sh
    ELSE published(IF output[k].method = "publishDiagnostics" /\ output[k].from = "config"
                   THEN Put(sh, output[k].uri,
                            [d \in 1..Len(output[k].diagnostics) |->
                               [message |-> output[k].diagnostics[d].message,
                                severity |-> output[k].diagnostics[d].severity,
                                at |-> output[k].diagnostics[d].at]])
                   ELSE sh,
                   output, k + 1)

Handled(m, S) ==
    /\ msg' = <<m>>
    /\ shown' = published(shown, S.out, 1)
    /\ UNCHANGED parts_vars
    /\ workspace_' = S.w
    /\ compile' = S.compile
    /\ safe_mode_' = S.safe_mode_
    /\ pc' = S.pc
    /\ out' = S.out
    /\ builds' = S.builds
    /\ reloads' = S.reloads
    /\ editor' = IF m.method = "textDocument/didChange" /\ m.doc \in SourceDocs
                 THEN Put(editor, weakly_canonical(m.doc), m.text) ELSE editor
    /\ UNCHANGED <<disk, edits>>

Respond(S, result) ==
    IF Alive(S) /\ ~Threw(S)
    THEN [S EXCEPT !.out = Append(@, [method |-> "response", result |-> result])]
    ELSE S

Init ==
    /\ disk \in InitialDisks
    /\ edits = 0
    /\ workspace_ = NewWorkspace
    /\ compile = << >>
    /\ safe_mode_ = FALSE
    /\ pc = "start"
    /\ editor = << >>
    /\ msg = << >>
    /\ out = << >>
    /\ builds = << >>
    /\ reloads = 0
    /\ shown = << >>
    /\ glob = << >> /\ client = << >> /\ tokens = << >>

\* a session over one of the sets of configuration files, which stay as they are
InitConfigs ==
    /\ disk \in ConfigSets
    /\ edits = 0
    /\ workspace_ = NewWorkspace
    /\ compile = << >>
    /\ safe_mode_ = FALSE
    /\ pc = "start"
    /\ editor = << >>
    /\ msg = << >>
    /\ out = << >>
    /\ builds = << >>
    /\ reloads = 0
    /\ shown = << >>
    /\ glob = << >> /\ client = << >> /\ tokens = << >>

\* the user rewrites, creates or deletes a configuration file
EditDisk ==
    /\ Waiting
    /\ edits < MaxDiskEdits
    /\ \E c \in ConfigPaths : \E v \in Variants(c) :
          /\ v # disk[c]
          /\ disk' = [disk EXCEPT ![c] = v]
    /\ edits' = edits + 1
    /\ UNCHANGED <<workspace_, compile, safe_mode_, pc, editor, msg, out, builds, reloads,
                   shown>>
    /\ UNCHANGED parts_vars

\* Server::run: the handler has returned or thrown a RequestError, what it
\* sent is on the wire, the loop reads the next message
run ==
    /\ msg # << >>
    /\ pc \in {"initialized", "serving"}
    /\ msg' = << >>
    /\ out' = << >>
    /\ builds' = << >>
    /\ reloads' = 0
    /\ UNCHANGED <<disk, edits, workspace_, compile, safe_mode_, pc, editor, shown>>
    /\ UNCHANGED parts_vars

Initialize ==
    /\ pc = "start"
    /\ \E restart_from_crash \in BOOLEAN :
          Handled(Message("initialize", EmptyPath,
                          IF restart_from_crash THEN "restartFromCrash" ELSE NoText),
                  [Cur EXCEPT !.safe_mode_ = restart_from_crash,
                              !.w = NewWorkspace,
                              !.pc = "initialized"])

Initialized ==
    /\ pc = "initialized"
    /\ msg = << >>
    /\ \E stale \in StaleReads :
          Handled(Message("initialized", EmptyPath, NoText),
                  reload_workspace(Cur, EmptyPath, disk, stale))

\* a shutdown handler that leaves running_ as it is
ShutdownKeepsRunning ==
    /\ Waiting
    /\ Handled(Message("shutdown", EmptyPath, NoText), Cur)

Shutdown ==
    /\ Waiting
    /\ Handled(Message("shutdown", EmptyPath, NoText), [Cur EXCEPT !.pc = "exit0"])

DidClose ==
    /\ Waiting
    /\ \E file \in Docs : Handled(Message("textDocument/didClose", file, NoText), Cur)

\* the configuration branch of didOpen and didSave
config_changed(file) ==
    LET r == on_config_changed(workspace_, file)
    IN publish_config_diagnostics(
           [Cur EXCEPT !.w = r.w, !.compile = IF r.known THEN << >> ELSE @,
                       !.reloads = IF r.known THEN 1 ELSE 0],
           EmptyLog, disk)

DidOpen ==
    /\ Waiting
    /\ \E file \in Docs : \E stale \in StaleReads :
          Handled(Message("textDocument/didOpen", file, NoText),
                  IF get_file_type(file) = "SourceFile"
                  THEN IF already_compiled(Cur, file) THEN Cur
                       ELSE compile_this_and_related_files(Cur, file, << >>, file,
                                                           disk, stale)
                  ELSE config_changed(file))

DidChange ==
    /\ Waiting
    /\ \E file \in ChangeDocs : \E content \in EditTexts : \E stale \in StaleReads :
          Handled(Message("textDocument/didChange", file, content),
                  IF get_file_type(file) = "ConfigFile" THEN Cur
                  ELSE compile_this_and_related_files(Cur, file, <<content>>, file,
                                                      disk, stale))

DidSave ==
    /\ Waiting
    /\ \E file \in Docs :
          Handled(Message("textDocument/didSave", file, NoText),
                  IF get_file_type(file) = "ConfigFile"
                  THEN config_changed(file) ELSE Cur)

\* reload_workspace from a handler
reloaded(stale) ==
    { reload_workspace(Cur, active, disk, stale) :
        active \in IF compile = << >> THEN {EmptyPath}
                   ELSE DanglingReads(compile[1].active_file) }

DidChangeConfiguration ==
    /\ Waiting
    /\ \E stale \in StaleReads : \E S \in reloaded(stale) :
          Handled(Message("workspace/didChangeConfiguration", EmptyPath, NoText), S)

WatchKinds == {"Created", "Changed", "Deleted"}

DidChangeWatchedFiles ==
    /\ Waiting
    /\ \E type \in WatchKinds : \E stale \in StaleReads :
          \E S \in IF type = "Changed" THEN {Cur} ELSE reloaded(stale) :
              Handled(Message("workspace/didChangeWatchedFiles", EmptyPath, type), S)

\* an answer that builds when the result does not cover the document, as the
\* other requests do
answer_after_build(S, file) ==
    Respond(ensure_compile(S, file, disk, "old"),
            IF already_compiled(S, file) THEN S.compile[1].locator[file] ELSE "null")

\* semantic tokens and inlay hints read the present result and nothing else;
\* the answer is computed from the text the result holds for the document
answer_from_result(S, file) ==
    IF ~already_compiled(S, file) THEN Respond(S, "null")
    ELSE Respond(S, S.compile[1].locator[file])

SemanticTokens_Full ==
    /\ Waiting
    /\ \E file \in Docs :
          Handled(Message("textDocument/semanticTokens/full", file, NoText),
                  answer_from_result(Cur, file))

SemanticTokens_Range ==
    /\ Waiting
    /\ \E file \in Docs :
          Handled(Message("textDocument/semanticTokens/range", file, NoText),
                  answer_from_result(Cur, file))

InlayHint ==
    /\ Waiting
    /\ \E file \in Docs :
          Handled(Message("textDocument/inlayHint", file, NoText),
                  answer_from_result(Cur, file))

\* the name map has entries for the documents of the result only
symbol_at(S, file) == Alive(S) /\ ~Threw(S) /\ already_compiled(S, file)
answer_value(S, file) == Respond(S, IF symbol_at(S, file) THEN "value" ELSE "null")

\* find_occurrences_of_identifier: the state after its ensure_compile
find_occurrences_of_identifier(S, file, stale) ==
    IF get_file_type(file) # "SourceFile" THEN S
    ELSE ensure_compile(S, file, disk, stale)

\* a cursor in a document of the result can be on a reference, which
\* Definition answers at once; otherwise it asks for the occurrences
definition_compiled(S, file, stale) ==
    IF symbol_at(S, file) THEN answer_value(S, file)
    ELSE answer_value(find_occurrences_of_identifier(S, file, stale), file)

Definition ==
    /\ Waiting
    /\ \E file \in Docs : \E stale \in StaleReads :
          Handled(Message("textDocument/definition", file, NoText),
                  IF get_file_type(file) # "SourceFile" THEN Respond(Cur, "null")
                  ELSE definition_compiled(ensure_compile(Cur, file, disk, stale),
                                           file, stale))

\* References, PrepareRename and Rename answer from the occurrences
occurrences_request(file, stale) ==
    answer_value(find_occurrences_of_identifier(Cur, file, stale), file)

References ==
    /\ Waiting
    /\ \E file \in Docs : \E stale \in StaleReads :
          Handled(Message("textDocument/references", file, NoText),
                  occurrences_request(file, stale))

PrepareRename ==
    /\ Waiting
    /\ \E file \in Docs : \E stale \in StaleReads :
          Handled(Message("textDocument/prepareRename", file, NoText),
                  occurrences_request(file, stale))

Rename ==
    /\ Waiting
    /\ \E file \in Docs : \E stale \in StaleReads :
          Handled(Message("textDocument/rename", file, NoText),
                  occurrences_request(file, stale))

Completion ==
    /\ Waiting
    /\ \E file \in Docs : \E stale \in StaleReads :
          Handled(Message("textDocument/completion", file, NoText),
                  IF get_file_type(file) # "SourceFile" THEN Respond(Cur, "null")
                  ELSE Respond(ensure_compile(Cur, file, disk, stale), "value"))

DebugAst ==
    /\ Waiting
    /\ \E file \in Docs : \E stale \in StaleReads :
          Handled(Message("artic/debugAst", file, NoText),
                  IF get_file_type(file) # "SourceFile" THEN Respond(Cur, "null")
                  ELSE answer_value(ensure_compile(Cur, file, disk, stale), file))

\* one message is handled
Serve ==
    \/ run
    \/ Initialize
    \/ Initialized
    \/ Shutdown
    \/ DidOpen
    \/ DidChange
    \/ DidSave
    \/ DidClose
    \/ DidChangeConfiguration
    \/ DidChangeWatchedFiles
    \/ SemanticTokens_Full
    \/ SemanticTokens_Range
    \/ InlayHint
    \/ Definition
    \/ References
    \/ PrepareRename
    \/ Rename
    \/ Completion
    \/ DebugAst

Next ==
    \/ EditDisk
    \/ Serve

Spec == Init /\ [][Next]_vars

\* the sessions in which nobody edits the configuration files
SpecConfigs == InitConfigs /\ [][Serve]_vars

\* a session that starts with a document that does not parse, which the user
\* can repair
InitRepair ==
    /\ disk = Disk(W_CHAIN, S_BROKEN, Absent)
    /\ edits = 0
    /\ workspace_ = NewWorkspace
    /\ compile = << >>
    /\ safe_mode_ = FALSE
    /\ pc = "start"
    /\ editor = << >>
    /\ msg = << >>
    /\ out = << >>
    /\ builds = << >>
    /\ reloads = 0
    /\ shown = << >>
    /\ glob = << >> /\ client = << >> /\ tokens = << >>

SpecRepair == InitRepair /\ [][Next]_vars

\* ----------------------------------------------------- parts run on their own

\* the server before its first message
ServerAtStart ==
    /\ disk \in InitialDisks
    /\ edits = 0
    /\ workspace_ = NewWorkspace
    /\ compile = << >>
    /\ safe_mode_ = FALSE
    /\ pc = "start"
    /\ editor = << >>
    /\ msg = << >>
    /\ out = << >>
    /\ builds = << >>
    /\ reloads = 0
    /\ shown = << >>

\* how often one pattern is expanded
MaxCalls == 2

GlobTrees == {FS_W, FS_LOOP, FS_WIDE, FS_DENIED}
GlobRoots == {RootPath, W_DIR, <<"/", "nowhere">>}
GlobHomes == {<< >>, <<W_DIR>>}
GlobPatterns ==
    { <<"a.art">>, <<"*.art">>, <<"*">>, <<"**">>, <<"sub", "**">>, <<"sub", "c.art">>,
      <<"**", "*.art">>, <<"**", "c.art">>, <<"**", "**", "c.art">>, <<"*", "c.art">>,
      <<"~", "a.art">>, <<"~", "w", "a.art">>, <<"~", "**", "*.art">>,
      <<"", "w", "a.art">>, <<"lnk", "a.art">> }

\* a pattern, a root, a file tree and a HOME for FilePatternParser::expand
InitGlob ==
    /\ ServerAtStart
    /\ \E root \in GlobRoots : \E parts \in GlobPatterns :
       \E home \in GlobHomes : \E tree \in GlobTrees :
          glob = [root |-> root, parts |-> parts, home |-> home, tree |-> tree,
                  calls |-> << >>]
    /\ client = << >> /\ tokens = << >>

\* FilePatternParser::expand(root, pattern, log) with a log of its own
Expand ==
    /\ glob # << >>
    /\ Len(glob.calls) < MaxCalls
    /\ glob' = [glob EXCEPT !.calls = Append(@, FilePatternParser(glob.root, glob.parts,
                                                                 glob.home, glob.tree,
                                                                 EmptyLog))]
    /\ UNCHANGED <<server_vars, client, tokens>>

SpecGlob == InitGlob /\ [][Expand]_vars

\* ---- FilePatternParser::expand call by call

\* the depth of the call stack that the walk is followed to
MaxDepth == 24

\* a call of dfs: "enter" at its begin, "open" before the directory_iterator
\* of the "**" case, "subdirs" in the loop of that case and "entries" in the
\* loop of the wildcard case, both at entry k
Frame(idx, base, at, k, dir_count) ==
    [idx |-> idx, base |-> base, at |-> at, k |-> k, dir_count |-> dir_count]
Top(g) == g.stack[Len(g.stack)]
\* dfs(idx, base) is called
call(g, idx, base) == [g EXCEPT !.stack = Append(@, Frame(idx, base, "enter", 0, 0))]
\* the call on top returns
return(g, st) == [g EXCEPT !.stack = SubSeq(@, 1, Len(@) - 1), !.st = st]
\* an exception leaves every call and the constructor
unwind(g) == [g EXCEPT !.stack = << >>, !.st = raise(@)]
\* the call on top goes on at another place
goto(g, f) == [g EXCEPT !.stack[Len(g.stack)] = f]
\* the parser state after a std::filesystem call that can throw
settle(g, st) == IF st.raised THEN unwind(g) ELSE return(g, st)

\* expand(): expand_home, the test of the root, dfs(0, root)
expand_start(g, h) ==
    IF status(h.root, g.tree) = "error"
    THEN unwind([g EXCEPT !.started = TRUE, !.root = h.root, !.parts = h.parts])
    ELSE IF status(h.root, g.tree) # "directory"
    THEN [g EXCEPT !.started = TRUE, !.root = h.root, !.parts = h.parts,
                   !.st.log = error(@, "Folder does not exist: {}", path_string(h.root))]
    ELSE call([g EXCEPT !.started = TRUE, !.root = h.root, !.parts = h.parts], 1, h.root)

\* dfs from its begin to its first loop or call
dfs_enter(g, f) ==
    IF f.idx = Len(g.parts) + 1 THEN settle(g, glob_file(g.st, f.base, g.tree))
    ELSE IF g.parts[f.idx] = "**"
    THEN call(goto(g, [f EXCEPT !.at = "open"]), f.idx + 1, f.base)
    ELSE IF ~is_wildcard(g.parts[f.idx])
    THEN (IF f.idx = Len(g.parts)
          THEN settle(g, glob_file(g.st, Append(f.base, g.parts[f.idx]), g.tree))
          ELSE IF status(Append(f.base, g.parts[f.idx]), g.tree) = "error" THEN unwind(g)
          ELSE IF status(Append(f.base, g.parts[f.idx]), g.tree) = "directory"
          THEN call(return(g, g.st), f.idx + 1, Append(f.base, g.parts[f.idx]))
          ELSE return(g, g.st))
    ELSE IF ~opens(f.base, g.tree) THEN unwind(g)
    ELSE goto(g, [f EXCEPT !.at = "entries", !.k = 1])

\* "size_t dir_count = 0" and the directory_iterator of the "**" case
star_open(g, f) ==
    IF ~opens(f.base, g.tree) THEN unwind(g)
    ELSE goto(g, [f EXCEPT !.at = "subdirs", !.k = 1, !.dir_count = 0])

\* the loop of the "**" case with an iterator that does not advance
star_loop_again(g, f) ==
    IF f.k > Len(listing(f.base, g.tree)) THEN return(g, g.st)
    ELSE IF status(Append(f.base, listing(f.base, g.tree)[f.k]), g.tree) # "directory"
    THEN goto(g, [f EXCEPT !.k = @ + 1])
    ELSE call(g, f.idx, Append(f.base, listing(f.base, g.tree)[f.k]))

\* one turn of the loop of the "**" case
star_loop(g, f) ==
    IF f.k > Len(listing(f.base, g.tree)) THEN return(g, g.st)
    ELSE IF status(Append(f.base, listing(f.base, g.tree)[f.k]), g.tree) = "error"
    THEN unwind(g)
    ELSE IF status(Append(f.base, listing(f.base, g.tree)[f.k]), g.tree) # "directory"
    THEN goto(g, [f EXCEPT !.k = @ + 1])
    ELSE IF f.dir_count + 1 > DirCap
    THEN return(g, [g.st EXCEPT !.log = warn(@, "Stopped expanding '**' due to excessive directories",
                                            g.parts[f.idx])])
    ELSE call(goto([g EXCEPT !.st.explored = @ + 1],
                   [f EXCEPT !.k = @ + 1, !.dir_count = @ + 1]),
              f.idx, Append(f.base, listing(f.base, g.tree)[f.k]))

\* one turn of the loop of the wildcard case
entry_loop(g, f) ==
    IF f.k > Len(listing(f.base, g.tree)) THEN return(g, g.st)
    ELSE IF f.k > EntryCap
    THEN return(g, [g.st EXCEPT !.log = warn(@, "Stopped expanding wildcard: too many entries",
                                            g.parts[f.idx])])
    ELSE IF ~fnmatch(g.parts[f.idx], listing(f.base, g.tree)[f.k])
    THEN goto(g, [f EXCEPT !.k = @ + 1])
    ELSE IF status(Append(f.base, listing(f.base, g.tree)[f.k]), g.tree) = "error"
    THEN unwind(g)
    ELSE IF f.idx = Len(g.parts)
    THEN goto([g EXCEPT !.st = glob_file(@, Append(f.base, listing(f.base, g.tree)[f.k]),
                                         g.tree)],
              [f EXCEPT !.k = @ + 1])
    ELSE IF status(Append(f.base, listing(f.base, g.tree)[f.k]), g.tree) = "directory"
    THEN call(goto(g, [f EXCEPT !.k = @ + 1]),
              f.idx + 1, Append(f.base, listing(f.base, g.tree)[f.k]))
    ELSE goto(g, [f EXCEPT !.k = @ + 1])

\* a parser that has not expanded its pattern yet
InitWalk ==
    /\ ServerAtStart
    /\ \E root \in GlobRoots : \E parts \in GlobPatterns :
       \E home \in GlobHomes : \E tree \in GlobTrees :
          glob = [root |-> root, parts |-> parts, home |-> home, tree |-> tree,
                  started |-> FALSE, stack |-> << >>, st |-> NewParser(EmptyLog)]
    /\ client = << >> /\ tokens = << >>

In(at) == glob # << >> /\ glob.stack # << >> /\ Top(glob).at = at /\ Len(glob.stack) < MaxDepth

ExpandStart ==
    /\ glob # << >> /\ ~glob.started
    /\ glob' = expand_start(glob, expand_home(glob.root, glob.parts, glob.home))
    /\ UNCHANGED <<server_vars, client, tokens>>
DfsEnter ==
    /\ In("enter")
    /\ glob' = dfs_enter(glob, Top(glob))
    /\ UNCHANGED <<server_vars, client, tokens>>
StarOpen ==
    /\ In("open")
    /\ glob' = star_open(glob, Top(glob))
    /\ UNCHANGED <<server_vars, client, tokens>>
StarLoop ==
    /\ In("subdirs")
    /\ glob' = star_loop(glob, Top(glob))
    /\ UNCHANGED <<server_vars, client, tokens>>
EntryLoop ==
    /\ In("entries")
    /\ glob' = entry_loop(glob, Top(glob))
    /\ UNCHANGED <<server_vars, client, tokens>>

NextWalk ==
    \/ ExpandStart
    \/ DfsEnter
    \/ StarOpen
    \/ StarLoop
    \/ EntryLoop

\* the thread that expands the pattern is not held up
SpecWalk == InitWalk /\ [][NextWalk]_vars /\ WF_vars(NextWalk)

\* ---- the language client of the editor extension

\* connectionOptions.maxRestartCount, 5 in the source, and the number of
\* sessions that are followed
MaxRestartCount == 2
MaxSessions == 4

\* the handler of client.onDidChangeState without the test of expectedStop
onDidChangeState_unchecked(c, old, new) ==
    IF old = "Running" /\ new = "Stopped" THEN [c EXCEPT !.restartFromCrash = TRUE] ELSE c

\* the handler of client.onDidChangeState
onDidChangeState(c, old, new) ==
    IF c.expectedStop THEN [c EXCEPT !.expectedStop = FALSE]
    ELSE IF old = "Running" /\ new = "Stopped" THEN [c EXCEPT !.restartFromCrash = TRUE]
    ELSE c

\* the client changes its public state and tells the handler
set_state(c, new) ==
    IF c.state = new THEN c ELSE onDidChangeState([c EXCEPT !.state = new], c.state, new)

\* initializationOptions: the flag is read and reset; the session is noted
\* with the way the session before it ended
initializationOptions(c) ==
    [c EXCEPT !.restartFromCrash = FALSE,
              !.initializing = TRUE,
              !.ended = "failed",
              !.sessions = Append(@, [restartFromCrash |-> c.restartFromCrash,
                                      after |-> c.ended])]

\* activate: startClient creates the client and starts it
InitClient ==
    /\ ServerAtStart
    /\ glob = << >> /\ tokens = << >>
    /\ client = [state |-> "Starting", initializing |-> FALSE, expectedStop |-> FALSE,
                 restartFromCrash |-> FALSE, restarts |-> 0, ended |-> "first",
                 sessions |-> << >>]

\* the server process runs: the client sends initialize with the options
SendInitialize ==
    /\ client # << >> /\ client.state = "Starting" /\ ~client.initializing
    /\ Len(client.sessions) < MaxSessions
    /\ client' = initializationOptions(client)
    /\ UNCHANGED <<server_vars, glob, tokens>>

\* the server answers initialize: the client is running
ServerStarts ==
    /\ client # << >> /\ client.state = "Starting" /\ client.initializing
    /\ client' = set_state([client EXCEPT !.initializing = FALSE], "Running")
    /\ UNCHANGED <<server_vars, glob, tokens>>

\* the server cannot be started, or ends before it has answered initialize
StartFails ==
    /\ client # << >> /\ client.state = "Starting"
    /\ client' = set_state([client EXCEPT !.initializing = FALSE], "Stopped")
    /\ UNCHANGED <<server_vars, glob, tokens>>

\* the server process ends while the client is running; the client starts it
\* again unless it has done so maxRestartCount times
ServerStops ==
    /\ client # << >> /\ client.state = "Running"
    /\ client' = IF client.restarts < MaxRestartCount
                  THEN set_state([set_state([client EXCEPT !.ended = "crash"], "Stopped")
                                     EXCEPT !.restarts = @ + 1], "Starting")
                  ELSE set_state([client EXCEPT !.ended = "crash"], "Stopped")
    /\ UNCHANGED <<server_vars, glob, tokens>>

\* the command artic.restart
Restart ==
    /\ client # << >>
    /\ client' = IF client.state = "Running"
                  THEN set_state(set_state([client EXCEPT !.expectedStop = TRUE,
                                                          !.ended = "restart"],
                                           "Stopped"), "Starting")
                  ELSE IF client.state = "Stopped" THEN set_state(client, "Starting")
                  ELSE client
    /\ client' # client
    /\ UNCHANGED <<server_vars, glob, tokens>>

NextClient ==
    \/ SendInitialize
    \/ ServerStarts
    \/ StartFails
    \/ ServerStops
    \/ Restart

SpecClient == InitClient /\ [][NextClient]_vars

\* ---- the semantic tokens of a compiled document, on their own

\* the number of identifiers in a name map, and their rows and columns
MaxTokens == 3
Rows == {1, 2}
Cols == {1, 2}
\* std::numeric_limits<int>::max(), the default of end_row
IntMax == 2147483647

\* a location within one row, rows and columns counted from 1
Locs == { [row |-> r, col |-> c, end_col |-> c + 1] : r \in Rows, c \in Cols }
\* declarations, with what create_semantic_token looks at: the identifiers in
\* the first column name a function, the others a static
DeclAt(loc) ==
    IF loc.col = 1 THEN [kind |-> "FnDecl", is_mut |-> FALSE, type |-> "FnType"]
    ELSE [kind |-> "StaticDecl", is_mut |-> FALSE, type |-> "none"]
\* the entries of a name map: an identifier and its declaration
Identifiers == { [loc |-> l, decl |-> DeclAt(l)] : l \in Locs }

token_type(decl) ==
    IF decl.type = "NoRetFn" THEN "Keyword"
    ELSE IF decl.type = "FnType" THEN "Function"
    ELSE IF decl.kind = "StaticDecl" THEN "Variable"
    ELSE IF decl.kind = "PtrnDecl" THEN "Parameter"
    ELSE IF decl.kind = "FnDecl" THEN "Function"
    ELSE "0"
token_modifiers(decl, is_decl) ==
    (IF decl.kind = "StaticDecl" THEN {"Static"} ELSE {})
    \cup (IF decl.kind \in {"StaticDecl", "PtrnDecl"} /\ ~decl.is_mut THEN {"Readonly"} ELSE {})
    \cup (IF is_decl THEN {"Definition", "Declaration"} ELSE {})

create_semantic_token(loc, decl, is_decl) ==
    [line |-> loc.row - 1, start |-> loc.col - 1, length |-> loc.end_col - loc.col,
     type |-> token_type(decl), modifiers |-> token_modifiers(decl, is_decl)]

\* the two loops of collect over the entries of a name map, in the order of
\* the iteration
RECURSIVE push_tokens(_, _, _, _)
push_tokens(entries, is_decl, start_row, end_row) ==
    IF entries = << >> THEN << >>
    ELSE (IF Head(entries).loc.row >= start_row /\ Head(entries).loc.row <= end_row
          THEN <<create_semantic_token(Head(entries).loc, Head(entries).decl, is_decl)>>
          ELSE << >>)
         \o push_tokens(Tail(entries), is_decl, start_row, end_row)

\* the comparison of std::sort in collect
token_less(a, b) == IF a.line # b.line THEN a.line < b.line ELSE a.start < b.start
\* the vector as it is passed to the encoding, without std::sort
unsorted(ts) == {ts}
\* the orders std::sort can leave the vector in: std::sort is not stable
std_sort(ts) ==
    { [i \in 1..Len(ts) |-> ts[q[i]]] :
        q \in { f \in [1..Len(ts) -> 1..Len(ts)] :
                  /\ \A i, j \in 1..Len(ts) : f[i] = f[j] => i = j
                  /\ \A i \in 1..(Len(ts) - 1) : ~token_less(ts[f[i + 1]], ts[f[i]]) } }

\* the loop "Encode" from token k on
RECURSIVE encode(_, _, _, _)
encode(ts, k, prev_line, prev_start) ==
    IF k > Len(ts) THEN << >>
    ELSE << ts[k].line - prev_line,
            IF ts[k].line - prev_line = 0 THEN ts[k].start - prev_start ELSE ts[k].start,
            ts[k].length, ts[k].type, ts[k].modifiers >>
         \o encode(ts, k + 1, ts[k].line, ts[k].start)

\* what collect pushes before it sorts
pushed(names, start_row, end_row) ==
    push_tokens(names.declaration_of, FALSE, start_row, end_row)
    \o push_tokens(names.references_of, TRUE, start_row, end_row)

\* collect: the data of the answers it can give
collect(name_map, file, start_row, end_row) ==
    IF ~Has(name_map.files, file) THEN {<< >>}
    ELSE { encode(sorted, 1, 0, 0) :
             sorted \in std_sort(pushed(name_map.files[file], start_row, end_row)) }

EntrySeqs(n) == UNION { [1..m -> Identifiers] : m \in 0..n }

\* a document that is not compiled, one that the name map does not know, or
\* one with references and declarations
TokenStates ==
    {[file |-> A_ART, compiled |-> FALSE, name_map |-> [files |-> << >>], answer |-> << >>],
     [file |-> A_ART, compiled |-> TRUE, name_map |-> [files |-> << >>], answer |-> << >>]}
    \cup UNION { { [file |-> A_ART, compiled |-> TRUE,
                    name_map |-> [files |-> (A_ART :> [declaration_of |-> refs,
                                                       references_of |-> decls])],
                    answer |-> << >>] :
                     decls \in EntrySeqs(MaxTokens - Len(refs)) } :
                 refs \in EntrySeqs(MaxTokens) }

InitTokens ==
    /\ ServerAtStart
    /\ glob = << >> /\ client = << >>
    /\ tokens \in TokenStates

\* the answer of a semantic-tokens handler for the rows start_row..end_row
tokens_answer(t, start_row, end_row, data) ==
    [t EXCEPT !.answer = <<[start_row |-> start_row, end_row |-> end_row,
                            result |-> data]>>]

\* textDocument/semanticTokens/full
CollectFull ==
    /\ tokens # << >>
    /\ IF ~tokens.compiled
       THEN tokens' = tokens_answer(tokens, 0, IntMax, "null")
       ELSE \E data \in collect(tokens.name_map, tokens.file, 0, IntMax) :
               tokens' = tokens_answer(tokens, 0, IntMax, data)
    /\ tokens' # tokens
    /\ UNCHANGED <<server_vars, glob, client>>

\* textDocument/semanticTokens/range for the lines first..last_line of the request
CollectRange ==
    /\ tokens # << >>
    /\ \E first \in { r - 1 : r \in Rows }, last_line \in { r - 1 : r \in Rows } :
          IF ~tokens.compiled
          THEN tokens' = tokens_answer(tokens, first + 1, last_line + 1, "null")
          ELSE \E data \in collect(tokens.name_map, tokens.file, first + 1, last_line + 1) :
                  tokens' = tokens_answer(tokens, first + 1, last_line + 1, data)
    /\ tokens' # tokens
    /\ UNCHANGED <<server_vars, glob, client>>

NextTokens ==
    \/ CollectFull
    \/ CollectRange

SpecTokens == InitTokens /\ [][NextTokens]_vars

TypeOK ==
    /\ pc \in {"start", "initialized", "serving", "exit0", "exit1", "crashed", "hung"}
    /\ safe_mode_ \in BOOLEAN
    /\ edits \in 0..MaxDiskEdits
    /\ Len(msg) <= 1

\* ------------------------------------------------------------------ properties

Handling(methods) == msg # << >> /\ msg[1].method \in methods
\* the builds of the present handler for which a compile set was returned
Returned == { i \in 1..Len(builds) : builds[i].fault = "none" }
Completed == { i \in 1..Len(builds) : builds[i].completed }

TokenMethods == {"textDocument/semanticTokens/full", "textDocument/semanticTokens/range",
                 "textDocument/inlayHint"}
RequestMethods == {"textDocument/definition", "textDocument/references",
                   "textDocument/prepareRename", "textDocument/rename",
                   "textDocument/completion", "artic/debugAst"}

\* C1: the compile set that collect_project_files returns for a file contains
\* the file, whether a project lists it, a default project that does not list
\* it was chosen, or no project was found.
C1_CompileSetContainsFile ==
    \A i \in Returned : Contains(builds[i].files, weakly_canonical(builds[i].file))

\* C1, the case of a default project that does not list the file: the file
\* follows the files of the project.
C1_DefaultProjectCase ==
    \E i \in Returned :
        /\ builds[i].file = A_ART
        /\ builds[i].files = <<B_ART, A_ART>>
        /\ Has(workspace_.cache, A_ART) /\ workspace_.cache[A_ART] = "dflt"

\* C2: once didChange(F, text) is handled, a semantic-tokens or inlay-hints
\* request for F that comes next is answered from the result that didChange
\* built: the result covers F and the answer is computed from text.
C2_AnsweredFromThatBuild ==
    (Handling({"textDocument/didChange"}) /\ pc = "serving" /\ msg[1].doc \in SourceDocs)
    => /\ Len(builds) = 1 /\ builds[1].completed
       /\ compile = <<[compile[1] EXCEPT !.locator = builds[1].texts]>>
       /\ answer_from_result(Cur, msg[1].doc).out
              = <<[method |-> "response", result |-> msg[1].text]>>

\* C2, the case of a document reached through the symbolic link: didChange has
\* built from the text, and the result does not cover the path of the request.
C2_LinkedPathCase ==
    /\ Handling({"textDocument/didChange"}) /\ pc = "serving"
    /\ msg[1].doc = A_LNK
    /\ Len(builds) = 1 /\ builds[1].completed
    /\ builds[1].texts[A_ART] = msg[1].text
    /\ ~already_compiled(Cur, A_LNK)

\* C3: a semantic-tokens or inlay-hints request starts no build, reloads
\* nothing, leaves the result, the workspace and safe mode as they are, and is
\* answered with null when the result does not cover the document.
C3_TokensNeverBuild ==
    [][ (msg' # << >> /\ msg'[1].method \in TokenMethods)
        => /\ builds' = << >> /\ reloads' = 0
           /\ UNCHANGED <<workspace_, compile, safe_mode_>>
           /\ ~already_compiled(Cur, msg'[1].doc)
                 => out' = <<[method |-> "response", result |-> "null"]>> ]_vars

\* C3, the case of a result that does not cover the document: the request is
\* answered with null and the result stays.
C3_NotCoveredCase ==
    /\ Handling(TokenMethods)
    /\ compile # << >> /\ ~already_compiled(Cur, msg[1].doc)
    /\ msg[1].doc = G_ART
    /\ out = <<[method |-> "response", result |-> "null"]>>

\* C4: didOpen of a source file F and a definition, references, prepareRename,
\* rename, completion or debugAst request on F start a build exactly when
\* there is no result or the locator of the result does not contain F; a
\* result that covers F is reused as it is.
C4_BuildIffNotCovered ==
    [][ (msg' # << >> /\ msg'[1].method \in RequestMethods \cup {"textDocument/didOpen"}
                      /\ msg'[1].doc \in SourceDocs)
        => /\ (builds' # << >>) <=> ~already_compiled(Cur, msg'[1].doc)
           /\ already_compiled(Cur, msg'[1].doc)
                 => UNCHANGED <<workspace_, compile, safe_mode_>> ]_vars

\* C4, the case of a request on a file the result does not cover: one build,
\* after which the result covers the file.
C4_BuildCase ==
    /\ Handling({"textDocument/rename"}) /\ msg[1].doc = A_ART
    /\ Len(builds) = 1 /\ builds[1].completed
    /\ already_compiled(Cur, A_ART)
    /\ out[Len(out)] = [method |-> "response", result |-> "value"]

\* C5: after didChange(F, text) every build whose compile set contains F
\* compiles text and not what the disk holds for F, until the next didChange
\* for F, also when the workspace has been reloaded in between.
C5_EditedTextCompiled ==
    \A i \in Completed : \A f \in DOMAIN editor :
        Contains(builds[i].files, f)
        => Has(builds[i].texts, f) /\ builds[i].texts[f] = editor[f]

\* C5, the case of a reload: the build that follows the reload compiles what
\* the disk holds for a file the editor has changed.
C5_ReloadCase ==
    /\ Handling({"workspace/didChangeConfiguration"}) /\ reloads = 1
    /\ Has(editor, A_ART)
    /\ Len(builds) = 1 /\ builds[1].completed
    /\ builds[1].texts[A_ART] = "disk"

\* the publishDiagnostics notifications of build n for the file f
Published(n, f) ==
    { k \in 1..Len(out) : /\ out[k].method = "publishDiagnostics"
                          /\ out[k].from = "build"
                          /\ out[k].build = n
                          /\ out[k].uri = f }

\* C6: a completed build publishes exactly one publishDiagnostics per file of
\* its compile set, and never two for the same URI.
C6_OneNotificationPerFile ==
    \A n \in Completed : \A f \in Range(builds[n].files) :
        Cardinality(Published(n, f)) = 1

\* C6, the case of a file that is twice in the compile set: two notifications
\* of one build for its URI.
C6_TwoForOneUriCase ==
    \E n \in Completed : builds[n].file = A_ART /\ Cardinality(Published(n, C_ART)) = 2

\* C7: the compile set assembled for a file contains no path twice.
C7_NoPathTwice ==
    \A i \in Returned : NoDup(builds[i].files)

\* C7, the case of the diamond app -> lib -> core, app -> core: the file of
\* core is in the compile set of a.art once per dependency path.
C7_DiamondCase ==
    \E i \in Returned :
        /\ builds[i].file = A_ART
        /\ builds[i].files = <<A_ART, B_ART, C_ART, C_ART>>

\* C8: a configuration file is opened, saved or changed: when its canonical
\* path is tracked, the workspace is reloaded and the result is discarded and
\* no build starts; when it is not tracked, the workspace tables, the discovery
\* cache and the result stay as they are.
ConfigEvents == {"textDocument/didOpen", "textDocument/didSave", "textDocument/didChange"}
C8_ConfigEvent ==
    [][ (msg' # << >> /\ msg'[1].method \in ConfigEvents /\ msg'[1].doc \in ConfigPaths)
        => IF Has(workspace_.configs, weakly_canonical(msg'[1].doc))
           THEN /\ workspace_' = NewWorkspace
                /\ compile' = << >>
                /\ reloads' = 1
                /\ builds' = << >>
           ELSE UNCHANGED <<workspace_, compile>> ]_vars

\* C8, the failing case: the tracked /w/sub/.artic-lsp has been saved and the
\* workspace still holds what it had read from it
C8_TrackedSavedCase ==
    /\ Handling({"textDocument/didSave"})
    /\ msg[1].doc = S_CFG
    /\ Has(workspace_.configs, S_CFG)
    /\ reloads = 0

\* C9: a project that discovery has returned for a file is what every later
\* discovery for the file returns, from the cache, until the workspace is
\* reloaded; and right after the save of a tracked configuration file, a build
\* for a file that a project of that configuration file lists includes every
\* file the project lists on disk.
C9_DiscoveryCached ==
    [][ /\ \A f \in DOMAIN workspace_.cache :
              /\ discover_project_for_file(workspace_, f, EmptyLog, disk, "old").project
                     = <<workspace_.cache[f]>>
              /\ reloads' = 0 => /\ Has(workspace_'.cache, f)
                                 /\ workspace_'.cache[f] = workspace_.cache[f]
        /\ (/\ msg' # << >>
            /\ msg'[1].method = "textDocument/didSave"
            /\ msg'[1].doc \in ConfigPaths
            /\ Has(workspace_.configs, msg'[1].doc)
            /\ disk[msg'[1].doc] # Absent)
           => \A f \in SourceDocs : \A i \in 1..Len(disk[msg'[1].doc].projects) :
                 Contains(materialize(parent_path(msg'[1].doc),
                                      disk[msg'[1].doc].projects[i].files),
                          weakly_canonical(f))
                 => Range(materialize(parent_path(msg'[1].doc),
                                      disk[msg'[1].doc].projects[i].files))
                       \subseteq
                    Range(collect_project_files(workspace_', f, EmptyLog, disk,
                                                "old").files) ]_vars

\* C9, the failing case: /w/sub/.artic-lsp was read when its project listed
\* c.art, lists e.art as well now, and has been saved
C9_AddedFileSavedCase ==
    /\ Handling({"textDocument/didSave"})
    /\ msg[1].doc = S_CFG
    /\ disk[S_CFG] = S_ADDED
    /\ Has(workspace_.projects, "subp")
    /\ ~Contains(collect_project_files(workspace_, C_ART, EmptyLog, disk, "old").files,
                 E_ART)

\* every file of the build that could be read parses
AllParse(b) == \A f \in Range(b.files) : Has(b.texts, f) => Parses(b.texts[f])

\* the flag after the builds bs, of which each that completes with every file
\* parsing clears it
RECURSIVE SafeAfter(_, _)
SafeAfter(bs, safe) ==
    IF bs = << >> THEN safe
    ELSE SafeAfter(Tail(bs), IF Head(bs).completed
                             THEN safe /\ ~AllParse(Head(bs)) ELSE safe)

\* C10: initialize sets safe mode to restartFromCrash; every build runs with
\* the flag as the builds before it have left it, a build that runs in safe
\* mode leaves the files that do not parse out of the program, the first build
\* in which every file parses clears the flag, and a cleared flag stays cleared.
C10_SafeModeUntilParsed ==
    [][ msg' # << >> =>
        IF msg'[1].method = "initialize"
        THEN safe_mode_' = (msg'[1].text = "restartFromCrash") /\ builds' = << >>
        ELSE /\ \A i \in 1..Len(builds') :
                   builds'[i].completed =>
                       /\ builds'[i].safe = SafeAfter(SubSeq(builds', 1, i - 1), safe_mode_)
                       /\ i = Len(builds') =>
                             compile'[1].program =
                                 { f \in DOMAIN builds'[i].texts :
                                     Parses(builds'[i].texts[f]) \/ ~builds'[i].safe }
             /\ safe_mode_' = SafeAfter(builds', safe_mode_)
             /\ ~safe_mode_ => ~safe_mode_' ]_vars

\* C10, the case: a build in safe mode in which every file parsed has cleared
\* the flag
C10_ClearedCase ==
    /\ builds # << >>
    /\ builds[1].completed
    /\ builds[1].safe
    /\ AllParse(builds[1])
    /\ builds[1].texts # << >>
    /\ ~safe_mode_

\* the projects that the registered project name reaches in at most n steps
RECURSIVE Reaches(_, _, _)
Reaches(w, name, n) ==
    IF n = 0 \/ ~Has(w.projects, name) THEN {}
    ELSE Range(w.projects[name].dependencies)
         \cup UNION { Reaches(w, d, n - 1) : d \in Range(w.projects[name].dependencies) }
\* no registered project depends on itself
Acyclic(w) ==
    \A id \in DOMAIN w.projects : id \notin Reaches(w, id, Cardinality(DOMAIN w.projects))
\* the dependencies that the document on disk declares for the registered project p
DeclaredDeps(p) ==
    LET j == disk[p.origin]
        named == { i \in 1..Len(j.projects) : j.projects[i].name = p.name }
    IN IF named # {}
       THEN j.projects[CHOOSE i \in named : \A k \in named : i <= k].dependencies
       ELSE j.default.project.dependencies
\* the dependency edges of registered projects that loading has removed
RemovedEdges(w) ==
    { e \in (DOMAIN w.projects) \X {"app", "lib", "core", "subp", "dflt", "tproj", "ghost"} :
        /\ Contains(DeclaredDeps(w.projects[e[1]]), e[2])
        /\ ~Contains(w.projects[e[1]].dependencies, e[2]) }
\* a message of the given severity in file, tagged with the literal
Tagged(messages, severity, file, literal) ==
    \E i \in 1..Len(messages) :
        /\ messages[i].severity = severity
        /\ messages[i].file = file
        /\ messages[i].context = <<[quoted |-> literal]>>
\* the configuration messages of the builds bs
RECURSIVE LogOf(_)
LogOf(bs) == IF bs = << >> THEN << >> ELSE Head(bs).log \o LogOf(Tail(bs))

\* C11: after every handler the registered dependency graph has no cycle,
\* uses_file and the collection of the compile set have ended for every
\* registered project, and every edge that loading has removed in the handler
\* is reported by an error in the document that declares it, tagged with the
\* name of the dependency.
C11_CycleReported ==
    [][ /\ Acyclic(workspace_')
        /\ pc' # "crashed"
        /\ \A id \in DOMAIN workspace_'.projects :
              /\ ~files_for_project(workspace_', id, StackDepth(workspace_')).overflow
              /\ \A f \in SourceDocs :
                    uses_file(workspace_', id, f, StackDepth(workspace_')) # "overflow"
        /\ reloads' = 0 =>
              \A e \in RemovedEdges(workspace_') \ RemovedEdges(workspace_) :
                  Tagged(LogOf(builds'), "Error", workspace_'.projects[e[1]].origin, e[2])
      ]_vars

\* C11, the failing case: a dependency that closed a cycle has been removed and
\* the error that reports it carries no literal
C11_UntaggedCase ==
    /\ RemovedEdges(workspace_) # {}
    /\ builds # << >>
    /\ \E i \in 1..Len(LogOf(builds)) :
          LogOf(builds)[i].severity = "Error" /\ LogOf(builds)[i].context = << >>

\* the configuration files that the file at c includes, in at most n steps
RECURSIVE IncludedBy(_, _)
IncludedBy(c, n) ==
    IF n = 0 \/ c \notin ConfigPaths THEN {}
    ELSE IF disk[c] = Absent THEN {}
    ELSE LET direct == { to_absolute_path(parent_path(c), disk[c].include[i].rel) :
                           i \in 1..Len(disk[c].include) }
         IN direct \cup UNION { IncludedBy(d, n - 1) : d \in direct }
\* a configuration file on disk includes itself, directly or not
IncludeCycle == \E c \in ConfigPaths : c \in IncludedBy(c, Cardinality(ConfigPaths))

\* C12: with an include cycle on disk every load ends: no handler crashes or
\* stops the server, every build for a document gets its compile set, a
\* tracked configuration file has its includes tracked as well, and no
\* configuration message is logged.
C12_IncludeCycleLoads ==
    IncludeCycle =>
        /\ pc \notin {"crashed", "exit1"}
        /\ \A i \in 1..Len(builds) :
              /\ builds[i].file # EmptyPath => builds[i].fault = "none"
              /\ builds[i].log = << >>
        /\ \A c \in DOMAIN workspace_.configs :
              IncludedBy(c, Cardinality(ConfigPaths)) \subseteq DOMAIN workspace_.configs

\* C12, the case: the three documents of the include cycle have been loaded by
\* a build for a.art
C12_CycleLoadedCase ==
    /\ IncludeCycle
    /\ builds # << >>
    /\ builds[1].file = A_ART
    /\ builds[1].completed
    /\ DOMAIN workspace_.configs = ConfigPaths
    /\ DOMAIN workspace_.projects = {"app", "subp", "tproj"}

\* C13: a configuration error never aborts the build of the file: a build whose
\* configuration log holds a message runs to its end, a compilation result
\* exists afterwards, and the server keeps processing messages.
C13_ConfigErrorKeepsBuild ==
    \A i \in 1..Len(builds) :
        builds[i].log # << >> /\ builds[i].files # << >>
            => builds[i].completed /\ compile # << >> /\ pc = "serving"

\* the unknown key "foo" in /w/artic.json ends the server before a.art is built
C13_UnknownKeyStopsCase ==
    /\ disk[W_CFG] = W_UNKNOWN
    /\ pc = "exit1"
    /\ compile = << >>
    /\ \E i \in 1..Len(builds) :
          /\ builds[i].file = A_ART
          /\ ~builds[i].completed
          /\ \E k \in 1..Len(builds[i].log) :
                builds[i].log[k].message = "unknown json property"

\* ---- the load order of the configuration files, read off the disk

\* the file is there and parses
Loads(path) == path \in ConfigPaths /\ disk[path] # Absent
               /\ disk[path].json_ok /\ disk[path].has_header

RECURSIVE LoadOrder(_, _)
RECURSIVE LoadIncludes(_, _)
\* the files a load from path enters, each once, a file before its includes and
\* the includes in the order of their declaration
LoadOrder(path, seen) ==
    IF ~Loads(path) \/ Contains(seen, path) THEN seen
    ELSE LoadIncludes(parse_includes(disk[path].include, path), Append(seen, path))
LoadIncludes(incs, seen) ==
    IF incs = << >> THEN seen
    ELSE LoadIncludes(Tail(incs), LoadOrder(Head(incs).path, seen))

RECURSIVE DefinitionsIn(_)
\* the project definitions of the files of order, in that order
DefinitionsIn(order) ==
    IF order = << >> THEN << >>
    ELSE parse(IncludeConfig(Head(order), "", FALSE), disk, EmptyLog).projects
         \o DefinitionsIn(Tail(order))

IsFirst(defs, i) == \A k \in 1..(i - 1) : defs[k].name # defs[i].name
\* a registered project is this definition, its dependency list aside
SameDefinition(p, def) ==
    /\ p.name = def.name /\ p.origin = def.origin /\ p.root_dir = def.root_dir
    /\ p.file_patterns = def.file_patterns /\ p.files = def.files

TableOf(w, defs, messages) ==
    /\ DOMAIN w.projects = { defs[i].name : i \in 1..Len(defs) }
    /\ \A i \in 1..Len(defs) :
          IF IsFirst(defs, i) THEN SameDefinition(w.projects[defs[i].name], defs[i])
          ELSE Tagged(messages, "Warning", defs[i].origin, defs[i].name)

\* C14: after a load from /w/artic.json into an empty workspace the project table
\* holds for each name exactly one definition, the first in load order (a file's
\* own projects before its includes, the includes in declared order); every
\* later definition is left out and has a warning tagged with the name in the
\* document of that later definition.
C14_FirstDefinitionWins ==
    [][ /\ workspace_.configs = << >> \/ reloads' > 0
        /\ builds' # << >>
        /\ \A i \in 1..Len(builds') : builds'[i].file = A_ART
        => TableOf(workspace_', DefinitionsIn(LoadOrder(W_CFG, << >>)), LogOf(builds')) ]_vars

\* the second definition of app in /w/artic.json is left out, its warning has no
\* literal, and the server has stopped
C14_DuplicateUntaggedCase ==
    /\ disk[W_CFG] = W_DUP
    /\ pc = "exit1"
    /\ DOMAIN workspace_.projects = {"app"}
    /\ workspace_.projects["app"].files = <<A_ART>>
    /\ \E i \in 1..Len(builds) : \E k \in 1..Len(builds[i].log) :
          /\ builds[i].log[k].message = "ignoring duplicate definition"
          /\ builds[i].log[k].file = W_CFG
          /\ builds[i].log[k].context = << >>

\* the project of file is the one that found names, with the same definition
ResolvesAs(w, file, found) ==
    found.project # << >>
        => /\ w.cache[file] = found.project[1]
           /\ SameDefinition(w.projects[w.cache[file]], found.w.projects[found.project[1]])

\* C15: with the configuration files unchanged, a file that resolves to project P
\* right after a reload resolves to P whenever it is resolved, whichever files
\* were opened before it: every remembered resolution is the one that discovery
\* in an empty workspace finds.
C15_ResolutionIndependentOfOrder ==
    \A f \in DOMAIN workspace_.cache :
        ResolvesAs(workspace_, f,
                   discover_project_for_file(NewWorkspace, f, EmptyLog, disk, "old"))

\* c.art is built as a file of subp, because /w/artic.json was loaded before
\* /w/sub/.artic-lsp; in an empty workspace it is a file of app
C15_OrderChangesProjectCase ==
    /\ disk[S_CFG] = S_VIA_APP
    /\ pc = "serving"
    /\ Has(workspace_.cache, C_ART) /\ workspace_.cache[C_ART] = "subp"
    /\ discover_project_for_file(NewWorkspace, C_ART, EmptyLog, disk, "old").project = <<"app">>
    /\ \E i \in 1..Len(builds) :
          builds[i].file = C_ART /\ builds[i].completed /\ Contains(builds[i].files, E_ART)

\* ---- the project that discovery is to find

\* the directories above a file, the nearest first, without "/"
RECURSIVE Ancestors(_)
Ancestors(dir) == IF Len(dir) <= 1 THEN << >> ELSE <<dir>> \o Ancestors(parent_path(dir))

\* the registered project name lists file, or a registered project it reaches does
UsesFile(w, name, file) ==
    \E m \in {name} \cup Reaches(w, name, Cardinality(DOMAIN w.projects)) :
        Has(w.projects, m) /\ Contains(w.projects[m].files, file)

\* the choice within a document: the first declared project that uses the file,
\* else the declared default project
ChoiceIn(w, config, file) ==
    LET using == { i \in 1..Len(config.projects) :
                     Has(w.projects, config.projects[i])
                     /\ UsesFile(w, config.projects[i], file) }
    IN IF using # {}
       THEN <<config.projects[CHOOSE i \in using : \A k \in using : i <= k]>>
       ELSE IF config.default_project # << >> /\ Has(w.projects, config.default_project[1])
       THEN config.default_project
       ELSE << >>

RECURSIVE DocumentOf(_, _, _)
\* the document of a directory: the first of the names, in their priority, that
\* is there and loads: [w, config]
DocumentLoaded(dir, names, r) ==
    IF r.ok THEN [w |-> r.w, config |-> <<Append(dir, Head(names))>>]
    ELSE DocumentOf(dir, Tail(names), r.w)
DocumentOf(dir, names, w) ==
    IF names = << >> THEN [w |-> w, config |-> << >>]
    ELSE IF ~exists(Append(dir, Head(names)), disk) THEN DocumentOf(dir, Tail(names), w)
    ELSE DocumentLoaded(dir, names,
             instantiate_config(IncludeConfig(Append(dir, Head(names)), "", FALSE),
                                w, EmptyLog, disk, "old"))

RECURSIVE ProjectFrom(_, _, _)
ChoiceOrParent(dirs, file, w, choice) ==
    IF choice # << >> THEN choice ELSE ProjectFrom(Tail(dirs), file, w)
ProjectIn(dirs, file, d) ==
    ChoiceOrParent(dirs, file, d.w,
                   IF d.config = << >> THEN << >>
                   ELSE ChoiceIn(d.w, d.w.configs[d.config[1]], file))
\* the project of file over the directories dirs: << >> or <<name>>
ProjectFrom(dirs, file, w) ==
    IF dirs = << >> THEN << >>
    ELSE ProjectIn(dirs, file, DocumentOf(Head(dirs), <<".artic-lsp", "artic.json">>, w))

\* the files that a step resolves anew
Resolved(before, bs) ==
    { weakly_canonical(bs[i].file) : i \in 1..Len(bs) } \ (DOMAIN before.cache \cup {EmptyPath})

\* C16: discovery for a file visits the ancestor directories nearest first; in a
\* directory .artic-lsp goes before artic.json; in the document it takes the
\* first declared project that uses the file, else the declared default
\* project, else it goes on with the parent directory.
C16_DiscoveryOrder ==
    [][ reloads' = 0 /\ pc' # "crashed"
        => \A f \in Resolved(workspace_, builds') :
              ProjectFrom(Ancestors(parent_path(f)), f, workspace_)
                  = IF Has(workspace_'.cache, f) THEN <<workspace_'.cache[f]>> ELSE << >> ]_vars

\* a.art went to app, the first of the two projects that list it; c.art to subp
\* of .artic-lsp, not to tproj of artic.json; g.art, which no project lists, to
\* the default project of /w/artic.json
C16_PriorityCase ==
    /\ disk[W_CFG] = W_TWICE
    /\ pc = "serving"
    /\ DOMAIN workspace_.cache = {A_ART, C_ART, G_ART}
    /\ workspace_.cache[A_ART] = "app"
    /\ workspace_.cache[C_ART] = "subp"
    /\ workspace_.cache[G_ART] = "lib"
    /\ T_CFG \notin DOMAIN workspace_.configs
    /\ builds # << >> /\ builds[Len(builds)].completed

\* C17: discovery for a file that no project of an ancestor document claims
\* ends when the walk reaches "/" and finds no project: the walk of every
\* build ends, and a build for a file without project has the file alone as
\* its compile set.
C17_WalkEndsAtRoot ==
    /\ pc # "hung"
    /\ \A i \in 1..Len(builds) :
          /\ builds[i].fault # "hang"
          /\ ~Has(workspace_.cache, weakly_canonical(builds[i].file))
                => builds[i].files = <<weakly_canonical(builds[i].file)>>

\* the second reload in a row builds for the empty path that the first one
\* left as the active file, and the walk from "" never reaches "/"
C17_EmptyPathWalkCase ==
    /\ pc = "hung"
    /\ compile # << >> /\ compile[1].active_file = EmptyPath
    /\ builds # << >>
    /\ builds[Len(builds)].file = EmptyPath
    /\ builds[Len(builds)].fault = "hang"

\* no ancestor directory of the file holds a configuration file
NoConfigAbove(file) ==
    \A i \in 1..Len(Ancestors(parent_path(file))) :
        /\ ~exists(Append(Ancestors(parent_path(file))[i], ".artic-lsp"), disk)
        /\ ~exists(Append(Ancestors(parent_path(file))[i], "artic.json"), disk)

\* C18: for a source file with no configuration file in any ancestor directory
\* the compile set is the file alone, and resolving it logs and publishes no
\* configuration diagnostic.
C18_NoConfigBuildsFileAlone ==
    \A i \in 1..Len(builds) :
        builds[i].file # EmptyPath /\ NoConfigAbove(weakly_canonical(builds[i].file))
            => /\ builds[i].files = <<weakly_canonical(builds[i].file)>>
               /\ builds[i].log = << >>
               /\ \A k \in 1..Len(out) :
                     out[k].method = "publishDiagnostics" => out[k].from # "config"

\* a.art is built alone: /w holds no configuration file, and the projects of
\* /w/sub/.artic-lsp, loaded for c.art before, do not matter
C18_NoConfigCase ==
    /\ disk[W_CFG] = Absent
    /\ S_CFG \in DOMAIN workspace_.configs
    /\ pc = "serving"
    /\ \E i \in 1..Len(builds) :
          /\ builds[i].file = A_ART
          /\ builds[i].completed
          /\ builds[i].files = <<A_ART>>
          /\ builds[i].log = << >>

\* every file of the registered project name and of the registered projects it
\* reaches is among files
HoldsProjectFiles(w, name, files) ==
    \A m \in {name} \cup Reaches(w, name, Cardinality(DOMAIN w.projects)) :
        Has(w.projects, m) => Range(w.projects[m].files) \subseteq Range(files)

\* C19: the compile set for a file of project P contains every materialized
\* file of P and of every project that P reaches through dependency names that
\* resolve to a registered project.
C19_CompileSetHoldsDependencies ==
    \A i \in 1..Len(builds) :
        builds[i].fault = "none" /\ Has(workspace_.cache, weakly_canonical(builds[i].file))
            => HoldsProjectFiles(workspace_, workspace_.cache[weakly_canonical(builds[i].file)],
                                 builds[i].files)

\* a.art of app is built with b.art of lib and sub/c.art of core, which app
\* reaches directly and through lib
C19_ChainCase ==
    /\ disk[W_CFG] = W_DIAMOND
    /\ Has(workspace_.cache, A_ART) /\ workspace_.cache[A_ART] = "app"
    /\ Reaches(workspace_, "app", 3) = {"lib", "core"}
    /\ \E i \in 1..Len(builds) :
          /\ builds[i].file = A_ART /\ builds[i].completed
          /\ {A_ART, B_ART, C_ART} \subseteq Range(builds[i].files)

\* ---- the materialized file list

\* what the patterns of one kind expand to
Expansions(root, patterns, excl) ==
    UNION { Range(expand(root, patterns[i].parts)) :
              i \in { k \in 1..Len(patterns) : patterns[k].excl = excl } }
\* the patterns in every order
Orders(patterns) ==
    { [i \in 1..Len(patterns) |-> patterns[f[i]]] : f \in Permutations(1..Len(patterns)) }

Materialized(p) ==
    /\ Range(p.files) = Expansions(p.root_dir, p.file_patterns, FALSE)
                           \ Expansions(p.root_dir, p.file_patterns, TRUE)
    /\ \A q \in Orders(p.file_patterns) :
          evaluate_patterns(p.root_dir, q, EmptyLog).files = Range(p.files)
    /\ p.file_patterns = << >> => p.files = << >>

Loaded(before, after, n) ==
    { c \in DOMAIN after.configs : c \notin DOMAIN before.configs \/ n > 0 }
\* the messages of document c about an include that is not there
AboutInclude(messages, c) ==
    { k \in 1..Len(messages) :
        /\ messages[k].file = c
        /\ messages[k].message = "Config file does not exist" }
MissingIncludes(w, c) ==
    { i \in 1..Len(w.configs[c].includes) : ~exists(w.configs[c].includes[i].path, disk) }
\* the includes of c that are there are loaded, the own projects are registered
LoadWentOn(w, c) ==
    /\ \A i \in 1..Len(w.configs[c].includes) :
          exists(w.configs[c].includes[i].path, disk) /\ Loads(w.configs[c].includes[i].path)
              => Has(w.configs, w.configs[c].includes[i].path)
    /\ \A i \in 1..Len(w.configs[c].projects) : Has(w.projects, w.configs[c].projects[i])

\* C21: a document is loaded that includes a file that is not there: a required
\* include has exactly one error, tagged with the include literal in the
\* including document, an optional one ("?" at the end) has no message; either
\* way the load of the including document goes on and nothing of the missing
\* document is registered.
C21_MissingInclude ==
    [][ \A c \in Loaded(workspace_, workspace_', reloads') :
          \A i \in MissingIncludes(workspace_', c) :
            /\ ~Has(workspace_'.configs, workspace_'.configs[c].includes[i].path)
            /\ \A n \in DOMAIN workspace_'.projects :
                  workspace_'.projects[n].origin # workspace_'.configs[c].includes[i].path
            /\ LoadWentOn(workspace_', c)
            /\ IF workspace_'.configs[c].includes[i].is_optional
               THEN AboutInclude(LogOf(builds'), c) = {}
               ELSE /\ Cardinality(AboutInclude(LogOf(builds'), c)) = 1
                    /\ Tagged(LogOf(builds'), "Error", c,
                              workspace_'.configs[c].includes[i].raw_path_string)
                    /\ pc' = "serving" ]_vars

\* "gone.json" is not there: its error has no literal and the server has stopped,
\* with /w/sub/.artic-lsp loaded after it
C21_RequiredUntaggedCase ==
    /\ disk[W_CFG] = W_GONE_THEN_S
    /\ pc = "exit1"
    /\ DOMAIN workspace_.configs = {W_CFG, S_CFG}
    /\ \E i \in 1..Len(builds) : \E k \in 1..Len(builds[i].log) :
          /\ builds[i].log[k].message = "Config file does not exist"
          /\ builds[i].log[k].file = W_CFG
          /\ builds[i].log[k].context = << >>

\* ---- dependency names that no registered project has

Unresolved(w, n) == { d \in Range(w.projects[n].dependencies) : ~Has(w.projects, d) }
\* the files of the registered project name and of the registered projects it reaches
FilesThrough(w, name) ==
    UNION { Range(w.projects[m].files) :
              m \in { x \in {name} \cup Reaches(w, name, Cardinality(DOMAIN w.projects)) :
                         Has(w.projects, x) } }

\* C22: a dependency name without registered project has an error tagged with
\* the name in the document that declares it, once that document is loaded, and
\* counts as not used: the compile set of a file of the project is what the
\* project and the registered projects it reaches list.
C22_UnresolvedDependency ==
    [][ /\ \A c \in Loaded(workspace_, workspace_', reloads') :
              \A n \in DOMAIN workspace_'.projects :
                  workspace_'.projects[n].origin = c
                      => \A d \in Unresolved(workspace_', n) :
                             Tagged(LogOf(builds'), "Error", c, d)
        /\ \A i \in 1..Len(builds') :
              builds'[i].fault = "none"
              /\ Has(workspace_'.cache, weakly_canonical(builds'[i].file))
                  => Range(builds'[i].files)
                       = FilesThrough(workspace_', workspace_'.cache[weakly_canonical(builds'[i].file)])
                         \cup {weakly_canonical(builds'[i].file)} ]_vars

\* app depends on "ghost", which nobody declares: a.art is built alone and
\* nothing is logged
C22_NothingLoggedCase ==
    /\ disk[W_CFG] = W_UNRESOLVED
    /\ pc = "serving"
    /\ Has(workspace_.projects, "app") /\ workspace_.projects["app"].dependencies = <<"ghost">>
    /\ Has(workspace_.cache, A_ART) /\ workspace_.cache[A_ART] = "app"
    /\ \E i \in 1..Len(builds) :
          /\ builds[i].file = A_ART /\ builds[i].completed
          /\ builds[i].files = <<A_ART>> /\ builds[i].log = << >>

\* the messages of the parser about document c
ParseMessages(messages, c) ==
    { k \in 1..Len(messages) :
        messages[k].file = c
        /\ messages[k].message \in {"Failed to parse json", "Missing artic-config header"} }

\* C23: between two reloads every configuration file is parsed at most once,
\* however many documents include it and however many directory walks find
\* it, and its diagnostics are not emitted a second time.
C23_ParsedOncePerReload ==
    [][ \A c \in ConfigPaths :
          /\ Has(workspace_'.parses, c) => workspace_'.parses[c] <= 1
          /\ ParseMessages(LogOf(builds'), c) # {}
                => Cardinality(ParseMessages(LogOf(builds'), c)) = 1
                   /\ (reloads' > 0 \/ ~Has(workspace_.parses, c)) ]_vars

\* /w/sub/.artic-lsp does not parse: the walk for g.art parses it again after
\* the walk for c.art did, and its error is in the log of the build once more
C23_ParsedAgainCase ==
    /\ disk[S_CFG] = S_BROKEN
    /\ pc = "serving"
    /\ C_ART \in DOMAIN workspace_.files
    /\ Has(workspace_.parses, S_CFG) /\ workspace_.parses[S_CFG] = 2
    /\ ~Has(workspace_.configs, S_CFG)
    /\ \E i \in 1..Len(builds) :
          /\ builds[i].file = G_ART /\ builds[i].completed
          /\ ParseMessages(builds[i].log, S_CFG) # {}

\* ---- the diagnostics of the configuration messages

\* how often the literal of message m stands in the document the message names
Occurrences(m) ==
    IF m.context = << >> \/ m.file \notin ConfigPaths THEN 0
    ELSE IF m.context[1].quoted = "" \/ disk[m.file] = Absent THEN 0
    ELSE Cardinality({ x \in 1..Len(document_strings(disk[m.file])) :
                         document_strings(disk[m.file])[x] = m.context[1].quoted })

\* the diagnostics that build n published for message k of its log
DiagnosticsOf(output, n, file, k) ==
    UNION { { <<x, y>> : y \in { z \in 1..Len(output[x].diagnostics) :
                                   output[x].diagnostics[z].of = k } } :
              x \in { z \in 1..Len(output) :
                        /\ output[z].method = "publishDiagnostics"
                        /\ output[z].from = "config"
                        /\ output[z].build = n
                        /\ output[z].uri = file } }
Places(output, ds) == { output[d[1]].diagnostics[d[2]].at : d \in ds }

\* one diagnostic per occurrence, or one at 0:0
PlacedAt(output, ds, n) ==
    /\ Cardinality(ds) = IF n = 0 THEN 1 ELSE n
    /\ Places(output, ds) = IF n = 0 THEN {0} ELSE 1..n

\* C24: for every configuration message publish_config_diagnostics gives one
\* diagnostic per occurrence of the literal in the document the message names,
\* or one diagnostic at 0:0 when the literal does not occur or the message has
\* none, and it returns normally.
C24_DiagnosticPerOccurrence ==
    [][ \A i \in 1..Len(builds') :
          builds'[i].log # << >>
              => /\ pc' # "exit1"
                 /\ \A k \in 1..Len(builds'[i].log) :
                       PlacedAt(out', DiagnosticsOf(out', i, builds'[i].log[k].file, k),
                                Occurrences(builds'[i].log[k])) ]_vars

\* the version "3.0" of /w/artic.json has a warning with the literal
\* "artic-config": nothing is published for it and the server has stopped
C24_LiteralThrowsCase ==
    /\ disk[W_CFG] = W_V3
    /\ pc = "exit1"
    /\ \A x \in 1..Len(out) : out[x].method # "publishDiagnostics"
    /\ \E i \in 1..Len(builds) : \E k \in 1..Len(builds[i].log) :
          /\ builds[i].log[k].message = "Unsupported artic-config version"
          /\ builds[i].log[k].severity = "Warning"
          /\ builds[i].log[k].context = << >>

\* ---- the events of the file watcher

\* C26: a didChangeWatchedFiles event reloads the workspace, whether its type
\* is Changed, Created or Deleted.
C26_WatchedFileEventReloads ==
    (msg # << >> /\ msg[1].method = "workspace/didChangeWatchedFiles")
        => reloads >= 1

\* a Changed event has been handled: no reload, the projects of before the
\* event are still registered and nothing has been built or sent
C26_ChangedIgnoredCase ==
    /\ msg # << >>
    /\ msg[1].method = "workspace/didChangeWatchedFiles"
    /\ msg[1].text = "Changed"
    /\ pc = "serving"
    /\ reloads = 0
    /\ workspace_.configs # << >>
    /\ builds = << >> /\ out = << >>

\* ---- what the editor shows for a configuration file

\* the document of f on disk has no fault
Repaired(f) == disk[f] # Absent /\ disk[f] \in Variants(f)
Shows(sh, f) == IF Has(sh, f) THEN sh[f] ELSE << >>

\* C25: the diagnostics of a configuration file stay as they are while the
\* workspace is not reloaded and the file is not published again, and after a
\* reload a file whose document has no fault any more shows no diagnostics.
C25_DiagnosticsUntilReload ==
    [][ msg' # << >> =>
          \A f \in ConfigPaths :
             /\ (reloads' = 0 /\ published(<< >>, out', 1) = << >>)
                   => Shows(shown', f) = Shows(shown, f)
             /\ (reloads' >= 1 /\ pc' = "serving" /\ Repaired(f))
                   => Shows(shown', f) = << >> ]_vars

\* /w/sub/.artic-lsp did not parse and the editor shows the error; the user
\* has repaired the document and the workspace has been reloaded and c.art
\* rebuilt from the repaired document, yet the editor still shows the error
C25_StaleAfterRepairCase ==
    /\ disk[S_CFG] \in {S_SUB, S_ADDED}
    /\ msg # << >> /\ msg[1].method = "workspace/didChangeConfiguration"
    /\ pc = "serving"
    /\ reloads = 1
    /\ Has(workspace_.configs, S_CFG)
    /\ \A x \in 1..Len(out) : out[x].method = "publishDiagnostics" => out[x].from # "config"
    /\ Shows(shown, S_CFG) # << >>
    /\ Shows(shown, S_CFG)[1].message = "Failed to parse json"

\* ---- the requests that read the result

ResultRequests == {"textDocument/definition", "textDocument/references",
                   "textDocument/rename", "textDocument/completion", "artic/debugAst"}
SourceRequests == ResultRequests \cup {"textDocument/prepareRename"}
Sent(code) == \E x \in 1..Len(out) : out[x].method = "error" /\ out[x].code = code

\* C27: when the handler of a definition, references, rename, completion or
\* debugAst request for source file F has run, the result lists F, and when
\* there is no result the request has failed with InternalError.
C27_ResultCoversTarget ==
    (/\ msg # << >>
     /\ msg[1].method \in ResultRequests
     /\ msg[1].doc \in SourceDocs
     /\ pc = "serving")
        => IF compile = << >> THEN Sent("InternalError")
           ELSE Has(compile[1].locator, msg[1].doc)

\* a references request for /w/sub/g.art, which is not on disk and has no text
\* in the editor: compile_files skips the document, the result lists nothing,
\* and the request has been answered from it
C27_UnreadableTargetCase ==
    /\ msg # << >>
    /\ msg[1].method = "textDocument/references"
    /\ msg[1].doc = G_ART
    /\ pc = "serving"
    /\ compile # << >>
    /\ compile[1].active_file = G_ART
    /\ ~Has(compile[1].locator, G_ART)
    /\ builds # << >>
    /\ ~Sent("InternalError")
    /\ \E x \in 1..Len(out) : out[x].method = "response"

\* C28: a definition, references, prepareRename, rename, completion or
\* debugAst request for a document that is not a source file is answered with
\* the error InvalidParams.
C28_NonSourceInvalidParams ==
    (/\ msg # << >>
     /\ msg[1].method \in SourceRequests
     /\ get_file_type(msg[1].doc) # "SourceFile"
     /\ pc = "serving")
        => Sent("InvalidParams")

\* a definition request for /w/artic.json has been answered with null: no
\* error, no build
C28_NullAnswerCase ==
    /\ msg # << >>
    /\ msg[1].method = "textDocument/definition"
    /\ msg[1].doc = W_CFG
    /\ pc = "serving"
    /\ out = <<[method |-> "response", result |-> "null"]>>
    /\ builds = << >>

\* ---- the message loop

Running == {"start", "initialized", "serving"}
Ended == {"exit0", "exit1", "crashed"}

RegularFilesUnder(dir) ==
    { f \in RegularSources : Len(f) > Len(dir) /\ SubSeq(f, 1, Len(dir)) = dir }
EndsWithDoubleStar(parts) ==
    /\ parts # << >> /\ Last(parts) = "**"
    /\ \A k \in 1..(Len(parts) - 1) : ~is_wildcard(parts[k]) /\ parts[k] # "**"

\* C30: a pattern of a registered project whose last segment is "**" expands
\* to every regular file at any depth below the directory that the segments
\* in front of it name.
C30_DoubleStarCollectsAll ==
    \A id \in DOMAIN workspace_.projects :
       \A k \in 1..Len(workspace_.projects[id].file_patterns) :
          EndsWithDoubleStar(workspace_.projects[id].file_patterns[k].parts)
             => Range(expand(workspace_.projects[id].root_dir,
                             workspace_.projects[id].file_patterns[k].parts))
                  = RegularFilesUnder(workspace_.projects[id].root_dir
                        \o SubSeq(workspace_.projects[id].file_patterns[k].parts, 1,
                                  Len(workspace_.projects[id].file_patterns[k].parts) - 1))

\* lib of /w/artic.json has the one pattern "sub/**": c.art and e.art are
\* below /w/sub and the pattern expands to nothing
C30_NothingCollectedCase ==
    /\ disk[W_CFG] = W_DEEP
    /\ pc = "serving"
    /\ Has(workspace_.projects, "lib")
    /\ workspace_.projects["lib"].file_patterns = <<Pat(<<"sub", "**">>)>>
    /\ expand(W_DIR, <<"sub", "**">>) = << >>
    /\ RegularFilesUnder(SUB_DIR) = {C_ART, E_ART}
    /\ builds # << >>
    /\ builds[Len(builds)].file = A_ART

\* ---- FilePatternParser: the home directory

Expansions0 == IF glob = << >> THEN {} ELSE 1..Len(glob.calls)
TildePattern == glob # << >> /\ Len(glob.parts) >= 2 /\ glob.parts[1] = "~"
Warned(log) == \E x \in 1..Len(log.messages) : log.messages[x].severity = "Warning"

\* C31: the expansion of a pattern that begins with "~/" while HOME is not set
\* gives what the rest of the pattern gives from "/", and logs a warning.
C31_HomeUnsetWarns ==
    \A i \in Expansions0 :
       (TildePattern /\ glob.home = << >>)
          => /\ glob.calls[i].results
                  = FilePatternParser(RootPath, Tail(glob.parts), << >>, glob.tree,
                                      EmptyLog).results
             /\ Warned(glob.calls[i].log)

\* "~/w/a.art" without HOME has given /w/a.art and the log is empty
C31_NoWarningCase ==
    /\ TildePattern /\ glob.home = << >>
    /\ glob.parts = <<"~", "w", "a.art">>
    /\ glob.tree = FS_W
    /\ glob.calls # << >>
    /\ glob.calls[1].results = <<A_ART>>
    /\ ~glob.calls[1].raised
    /\ glob.calls[1].log.messages = << >>

\* ---- FilePatternParser: the list of results

C33_FlagAfterCrashOnly ==
    client # << >> =>
       \A k \in 1..Len(client.sessions) :
          client.sessions[k].restartFromCrash <=> client.sessions[k].after = "crash"

\* a first session, a restart by the user, a crash and the session after it,
\* and one more restart by the user: false, false, true, false
C33_CrashBetweenRestartsCase ==
    /\ client # << >>
    /\ client.state = "Running"
    /\ Len(client.sessions) = 4
    /\ [k \in 1..4 |-> client.sessions[k].after] = <<"first", "restart", "crash", "restart">>
    /\ [k \in 1..4 |-> client.sessions[k].restartFromCrash] = <<FALSE, FALSE, TRUE, FALSE>>
    /\ ~client.expectedStop /\ ~client.restartFromCrash

\* ---- FilePatternParser: the cap on directories

OneDoubleStar(parts) == Cardinality({ k \in 1..Len(parts) : parts[k] = "**" }) = 1
CapWarnings(log, tag) ==
    { x \in 1..Len(log.messages) :
        /\ log.messages[x].message = "Stopped expanding '**' due to excessive directories"
        /\ log.messages[x].severity = "Warning"
        /\ log.messages[x].context = tag }

\* the directory in which the "**" of the pattern is met, for a pattern whose
\* segments in front of it are names
StarBase(h) ==
    h.root \o SubSeq(h.parts, 1, (CHOOSE k \in 1..Len(h.parts) : h.parts[k] = "**") - 1)
DirectoriesBelow(base, tree) ==
    { d \in DOMAIN tree.dirs : Len(d) > Len(base) /\ SubSeq(d, 1, Len(base)) = base }

\* C34: an expansion with one "**" goes into at most DirCap directories in
\* total, and when it has stopped at the cap it has logged a warning tagged
\* with "**" and has not thrown.
C34_DirectoryCap ==
    \A i \in Expansions0 :
       OneDoubleStar(glob.parts) =>
          /\ glob.calls[i].explored <= DirCap
          /\ CapWarnings(glob.calls[i].log, << >>) = {}
          /\ \/ glob.calls[i].raised
             \/ Cardinality(DirectoriesBelow(StarBase(expand_home(glob.root, glob.parts,
                                                                  glob.home)),
                                              glob.tree)) <= DirCap
             \/ CapWarnings(glob.calls[i].log, <<[quoted |-> "**"]>>) # {}

\* "**/c.art" from /w, which has three sub-directories: the loop over /w has
\* stopped in front of the third with a warning without a literal, and the
\* expansion has gone into four directories, two of them below /w/d1
C34_CountedPerDirectoryCase ==
    /\ glob # << >>
    /\ glob.tree = FS_WIDE /\ glob.root = W_DIR /\ glob.parts = <<"**", "c.art">>
    /\ glob.calls # << >>
    /\ ~glob.calls[1].raised
    /\ glob.calls[1].explored = 4
    /\ glob.calls[1].results = << <<"/", "w", "d1", "c.art">> >>
    /\ Cardinality(CapWarnings(glob.calls[1].log, << >>)) = 1
    /\ Len(glob.calls[1].log.messages) = 1

\* ---- the version of a configuration document

\* the messages of document c with the given text
VersionMessages(messages, c, text) ==
    { k \in 1..Len(messages) : messages[k].file = c /\ messages[k].message = text }

\* C35: a document of version "2.0" gets no version diagnostic, one of version
\* "1.0" the deprecation warning, one of any other version the warning for an
\* unsupported version; in all three cases the document is loaded.
C35_VersionDiagnostics ==
    [][ \A c \in Loaded(workspace_, workspace_', reloads') :
          /\ workspace_'.configs[c].version = disk'[c].version
          /\ disk'[c].version = "2.0"
                => /\ VersionMessages(LogOf(builds'), c, "Deprecated artic-config version") = {}
                   /\ VersionMessages(LogOf(builds'), c, "Unsupported artic-config version") = {}
          /\ disk'[c].version = "1.0"
                => /\ VersionMessages(LogOf(builds'), c, "Unsupported artic-config version") = {}
                   /\ \E k \in VersionMessages(LogOf(builds'), c, "Deprecated artic-config version") :
                         LogOf(builds')[k].severity = "Warning"
          /\ disk'[c].version \notin {"1.0", "2.0"}
                => /\ VersionMessages(LogOf(builds'), c, "Deprecated artic-config version") = {}
                   /\ \E k \in VersionMessages(LogOf(builds'), c, "Unsupported artic-config version") :
                         LogOf(builds')[k].severity = "Warning" ]_vars

\* /w/artic.json has version "1.0": the document is loaded and the warning of
\* the build says that the version is unsupported, not that it is deprecated
C35_DeprecatedAsUnsupportedCase ==
    /\ disk[W_CFG] = W_V1
    /\ Has(workspace_.configs, W_CFG) /\ workspace_.configs[W_CFG].version = "1.0"
    /\ Has(workspace_.projects, "app")
    /\ VersionMessages(LogOf(builds), W_CFG, "Deprecated artic-config version") = {}
    /\ \E k \in VersionMessages(LogOf(builds), W_CFG, "Unsupported artic-config version") :
          LogOf(builds)[k].severity = "Warning"

\* ---- FilePatternParser: errors of the file system

\* the directories of the tree that the expansion cannot enumerate
Unreadable(tree) == tree.denied

\* C36: no exception leaves the expansion of a pattern: when a directory
\* cannot be enumerated the expansion logs a warning and returns the files it
\* has found.
C36_NoExceptionEscapes ==
    \A i \in Expansions0 :
       /\ ~glob.calls[i].raised
       /\ (Unreadable(glob.tree) # {} /\ glob.root = W_DIR /\ "**" \in Range(glob.parts))
             => Warned(glob.calls[i].log)

\* "**/*.art" from /w, where /w/sub cannot be opened: a.art has been found,
\* then directory_iterator has thrown and nothing has been logged
C36_EnumerationThrowsCase ==
    /\ glob # << >>
    /\ glob.tree = FS_DENIED /\ glob.root = W_DIR /\ glob.parts = <<"**", "*.art">>
    /\ glob.calls # << >>
    /\ glob.calls[1].raised
    /\ glob.calls[1].results = <<A_ART>>
    /\ glob.calls[1].log.messages = << >>

\* ---- the stream of semantic tokens

\* the answers that carry data
TokenAnswers ==
    IF tokens = << >> THEN {}
    ELSE { x \in 1..Len(tokens.answer) : tokens.answer[x].result # "null" }
\* what a client reads from the data: the tokens with absolute positions
RECURSIVE decode(_, _, _, _)
decode(data, k, line, start) ==
    IF k + 4 > Len(data) THEN << >>
    ELSE <<[line |-> line + data[k],
            start |-> IF data[k] = 0 THEN start + data[k + 1] ELSE data[k + 1],
            length |-> data[k + 2], type |-> data[k + 3], modifiers |-> data[k + 4]]>>
         \o decode(data, k + 5, line + data[k],
                   IF data[k] = 0 THEN start + data[k + 1] ELSE data[k + 1])
\* a sequence as a bag
BagOf(sq) == [e \in Range(sq) |-> Cardinality({ i \in 1..Len(sq) : sq[i] = e })]
\* the tokens of the identifiers of the document that lie in the rows asked for
TokensInRows(a) ==
    pushed(tokens.name_map.files[tokens.file], a.start_row, a.end_row)

\* C37: the data of an answer hold five numbers per token, no delta is
\* negative, the tokens are in non-decreasing order of (line, start), and
\* accumulating the deltas gives back the tokens of the document in the rows
\* asked for, each with its line and start.
C37_DeltaEncodedInOrder ==
    \A x \in TokenAnswers :
       Has(tokens.name_map.files, tokens.file) =>
          /\ Len(tokens.answer[x].result) = 5 * Len(TokensInRows(tokens.answer[x]))
          /\ \A k \in 1..Len(TokensInRows(tokens.answer[x])) :
                /\ tokens.answer[x].result[5 * k - 4] >= 0
                /\ tokens.answer[x].result[5 * k - 3] >= 0
          /\ \A k \in 1..(Len(decode(tokens.answer[x].result, 1, 0, 0)) - 1) :
                ~token_less(decode(tokens.answer[x].result, 1, 0, 0)[k + 1],
                            decode(tokens.answer[x].result, 1, 0, 0)[k])
          /\ BagOf(decode(tokens.answer[x].result, 1, 0, 0))
                = BagOf(TokensInRows(tokens.answer[x]))

\* a reference in row 2 stands in the name map before one in row 1, a third
\* token follows in row 2: the answer for the whole document lists row 1
\* first, and the second token of row 2 has a start relative to the first
C37_SortedCase ==
    /\ tokens # << >>
    /\ tokens.compiled /\ Has(tokens.name_map.files, tokens.file)
    /\ Len(tokens.name_map.files[tokens.file].declaration_of) = 2
    /\ tokens.name_map.files[tokens.file].declaration_of[1].loc = [row |-> 2, col |-> 1, end_col |-> 2]
    /\ tokens.name_map.files[tokens.file].declaration_of[2].loc = [row |-> 1, col |-> 2, end_col |-> 3]
    /\ Len(tokens.name_map.files[tokens.file].references_of) = 1
    /\ tokens.name_map.files[tokens.file].references_of[1].loc = [row |-> 2, col |-> 2, end_col |-> 3]
    /\ tokens.answer # << >>
    /\ tokens.answer[1].start_row = 0
    /\ Len(tokens.answer[1].result) = 15
    /\ tokens.answer[1].result[1] = 0 /\ tokens.answer[1].result[2] = 1
    /\ tokens.answer[1].result[6] = 1 /\ tokens.answer[1].result[7] = 0
    /\ tokens.answer[1].result[11] = 0 /\ tokens.answer[1].result[12] = 1

\* ---- configuration files and source files

\* C38: a document is handled as a configuration file exactly when its name
\* is artic.json or .artic-lsp, and as a source file only when its extension
\* is .art or .impala: opening a configuration file starts no build, and the
\* document that a build is started for on didOpen is a source file.
C38_FileTypeByName ==
    Handling({"textDocument/didOpen"})
        => /\ get_file_type(msg[1].doc) = "ConfigFile"
                <=> Last(msg[1].doc) \in {"artic.json", ".artic-lsp"}
           /\ Last(msg[1].doc) \in {"artic.json", ".artic-lsp"} => builds = << >>
           /\ builds # << >> => extension(msg[1].doc) \in {".art", ".impala"}

\* /w/sub/.artic-lsp has been opened: it is no configuration file for
\* get_file_type, and a build with it as the active file has been started
C38_DotFileBuiltCase ==
    /\ Handling({"textDocument/didOpen"})
    /\ msg[1].doc = S_CFG
    /\ get_file_type(S_CFG) = "SourceFile"
    /\ builds # << >>
    /\ builds[1].file = S_CFG

\* ---- dependency graphs without a cycle

\* the documents on disk
Documents == { disk[c] : c \in { x \in ConfigPaths : disk[x] # Absent } }
\* the dependencies that a document on disk declares for a project named n
DeclaredEdges(n) ==
    UNION { UNION { Range(d.projects[i].dependencies) :
                      i \in { x \in 1..Len(d.projects) : d.projects[x].name = n } }
            \cup (IF d.default.kind = "inline"
                  THEN (IF d.default.project.name = n
                        THEN Range(d.default.project.dependencies) ELSE {})
                  ELSE {}) : d \in Documents }
\* the names reached from the names of S in at most k more steps
RECURSIVE DeclaredClosure(_, _)
DeclaredClosure(S, k) ==
    IF k = 0 THEN S
    ELSE DeclaredClosure(S \cup UNION { DeclaredEdges(m) : m \in S }, k - 1)
ProjectNames == {"app", "lib", "core", "subp", "dflt", "tproj", "ghost"}
\* no project of the documents on disk reaches itself
DeclaredAcyclic ==
    \A n \in ProjectNames :
        n \notin DeclaredClosure(DeclaredEdges(n), Cardinality(ProjectNames))
Circular(messages) ==
    { k \in 1..Len(messages) : messages[k].message = "Circular dependency detected" }

\* C39: when the dependency graph of the documents on disk has no cycle,
\* loading removes no dependency of a registered project and logs no
\* circular dependency, whether projects share a dependency or depend on a
\* name that no document declares.
C39_AcyclicKeepsEdges ==
    DeclaredAcyclic
        => /\ RemovedEdges(workspace_) = {}
           /\ Circular(LogOf(builds)) = {}

\* app -> lib -> core, app -> core and app -> ghost are registered as they
\* are declared, and the build of a.art has logged nothing
C39_DiamondWithGhostCase ==
    /\ disk[W_CFG] = W_GHOST_DIAMOND
    /\ pc = "serving"
    /\ Has(workspace_.projects, "app") /\ Has(workspace_.projects, "lib")
    /\ Has(workspace_.projects, "core")
    /\ workspace_.projects["app"].dependencies = <<"lib", "core", "ghost">>
    /\ workspace_.projects["lib"].dependencies = <<"core">>
    /\ \E i \in 1..Len(builds) :
          builds[i].file = A_ART /\ builds[i].completed /\ builds[i].log = << >>

\* ---- FilePatternParser: the end of an expansion

\* expand has returned, or an exception has left it
WalkEnded == glob # << >> /\ glob.started /\ glob.stack = << >>

\* C40: every expansion ends, whatever the pattern and the file tree, also
\* when a symbolic link below a "**" segment leads back to a directory above
\* it.
C40_ExpansionEnds == <>WalkEnded

\* "**/c.art" from /w with the link /w/sub/loop -> /w: the walk has gone
\* through the link until the system refused the path, and has ended with
\* the exception of that call
C40_LoopEndedCase ==
    /\ WalkEnded
    /\ glob.tree = FS_LOOP /\ glob.root = W_DIR /\ glob.parts = <<"**", "c.art">>
    /\ glob.st.raised
    /\ glob.st.explored = 2 * MaxLinks + 1
    /\ glob.st.results = <<C_ART>>

====
